---- MODULE Spec2Model ----
(***************************************************************************)
(* semdiff: the comparison engine of semdiff-core (calc_diff), the differ  *)
(* chain it dispatches to and the report sink the leaf tasks write into.   *)
(*                                                                         *)
(* The caller thread walks the two trees (calc_diff_inner, an explicit     *)
(* stack of frames here), every leaf becomes a task of the rayon scope,    *)
(* tasks run concurrently with the walk and with each other, and the scope *)
(* joins before the error slot is read and finish() is called.             *)
(***************************************************************************)
EXTENDS Integers, Sequences, FiniteSets, TLC

\* ------------------------------------------------------------------ bounds
MaxDepth == 3
MaxLeaves == 2
MaxChain == 2

\* Path segments (names of files and directories).
Names == {<<"a">>, <<"b">>}

\* ----------------------------------------------------------------- strings
\* A String is a sequence of one-character strings; bytes compare by value.
Ord(c) == CASE c = "/" -> 47 [] c = "a" -> 97 [] c = "b" -> 98 [] OTHER -> 0

RECURSIVE str_cmp(_, _)
str_cmp(s, t) ==
    IF s = <<>> /\ t = <<>> THEN "Equal"
    ELSE IF s = <<>> THEN "Less"
    ELSE IF t = <<>> THEN "Greater"
    ELSE IF Ord(Head(s)) < Ord(Head(t)) THEN "Less"
    ELSE IF Ord(Head(s)) > Ord(Head(t)) THEN "Greater"
    ELSE str_cmp(Tail(s), Tail(t))

\* A truncate that cuts one character too late.
truncate_late(s, len) == IF len < Len(s) THEN SubSeq(s, 1, len + 1) ELSE s

\* String::truncate.
truncate(s, len) == IF len < Len(s) THEN SubSeq(s, 1, len) ELSE s

\* AppendedName::new: the accumulator after pushing the segment.
AppendedName_new(n, segment) ==
    IF n # <<>> THEN (n \o <<"/">>) \o segment ELSE n \o segment

\* Drop that leaves the pushed segment in the accumulator.
AppendedName_drop_keeps(n, original_len) == n

\* Drop for AppendedName.
AppendedName_drop(n, original_len) == truncate(n, original_len)

\* ------------------------------------------------------------------- trees
\* A tree is the map from its leaf paths (sequences of segments) to the
\* leaf contents; its directories are the proper prefixes of leaf paths.
Paths == UNION {[1..d -> Names] : d \in 1..MaxDepth}

IsPrefix(p, q) == Len(p) <= Len(q) /\ SubSeq(q, 1, Len(p)) = p

PrefixFree(S) == \A p \in S, q \in S : IsPrefix(p, q) => p = q

RECURSIVE SetsUpTo(_)
SetsUpTo(k) ==
    IF k = 0 THEN {{}}
    ELSE SetsUpTo(k - 1) \cup {S \cup {p} : S \in SetsUpTo(k - 1), p \in Paths}

\* The sets of at most MaxLeaves leaf paths the two trees hold between them.
LeafSets == SetsUpTo(MaxLeaves)

NoNode == [side |-> "none", path |-> <<>>]

TraversalNode_Node(side, path) ==
    [kind |-> "Node", name |-> path[Len(path)], side |-> side, path |-> path, value |-> 0]

TraversalNode_Leaf(side, path, value) ==
    [kind |-> "Leaf", name |-> path[Len(path)], side |-> side, path |-> path, value |-> value]

\* NodeTraverse::children: the items directly below a directory.
children(tree, side, path) ==
    {TraversalNode_Leaf(side, q, tree[q]) :
        q \in {q \in DOMAIN tree : Len(q) = Len(path) + 1 /\ IsPrefix(path, q)}}
    \cup
    {TraversalNode_Node(side, SubSeq(q, 1, Len(path) + 1)) :
        q \in {q \in DOMAIN tree : Len(q) > Len(path) + 1 /\ IsPrefix(path, q)}}

\* The orders in which an iterator can yield a set of items.
Orders(S) ==
    {o \in [1..Cardinality(S) -> S] : \A i, j \in 1..Cardinality(S) : o[i] = o[j] => i = j}

\* An order on the names alone, whatever the kinds.
cmp_by_name(x, y) == str_cmp(x.name, y.name)

\* Ord for TraversalNode: nodes before leaves, then by name.
cmp(x, y) ==
    IF x.kind = "Node" /\ y.kind = "Leaf" THEN "Less"
    ELSE IF x.kind = "Leaf" /\ y.kind = "Node" THEN "Greater"
    ELSE str_cmp(x.name, y.name)

\* A sort that leaves the list as the iterator yielded it.
sort_unstable_unsorted(s) == s

RECURSIVE insert_sorted(_, _)
insert_sorted(x, s) ==
    IF s = <<>> THEN <<x>>
    ELSE IF cmp(x, Head(s)) = "Greater" THEN <<Head(s)>> \o insert_sorted(x, Tail(s))
    ELSE <<x>> \o s

RECURSIVE sort_unstable(_)
sort_unstable(s) ==
    IF s = <<>> THEN <<>> ELSE insert_sorted(Head(s), sort_unstable(Tail(s)))


\* ------------------------------------------------------------------- state
VARIABLES
    expected,   \* the expected tree handed to calc_diff
    actual,     \* the actual tree handed to calc_diff
    diff,       \* the differ chain handed to calc_diff
    pc,         \* where the caller thread is inside calc_diff
    stack,      \* the frames of calc_diff_inner, innermost last
    name,       \* the path accumulator (&mut String)
    thrown,     \* the Err a frame is returning through `?`
    tasks,      \* the tasks spawned into the rayon scope, in spawn order
    errors,     \* the shared slot Mutex<Option<CalcDiffError>>
    entries,    \* the sink's map from key to entry
    counts,     \* the sink's four counters
    events,     \* the calls the reporter has seen, in order
    output,     \* the document finish() wrote
    result,     \* what calc_diff returned
    panicked,   \* an assert! or unreachable! has fired
    failed,     \* some traversal step or leaf task has failed
    round,      \* which call of calc_diff this is
    plan,       \* how a second call is made: "swap" or "same"
    first,      \* the (status, key) events of the first call
    call        \* one call of a differ on a leaf or a pair of leaves

vars == <<expected, actual, diff, pc, stack, name, thrown, tasks, errors,
          entries, counts, events, output, result, panicked, failed, round, plan, first,
          call>>

NoError == [kind |-> "None", key |-> <<>>]
CalcDiffError(kind, key) == [kind |-> kind, key |-> key]
Pending == [kind |-> "Pending", key |-> <<>>]
OkResult == [kind |-> "Ok", key |-> <<>>]

Statuses == {"Unchanged", "Modified", "Added", "Deleted"}
ZeroCounts == [s \in Statuses |-> 0]
EmptyMap == [k \in {} |-> 0]
NoOutput == [counts |-> ZeroCounts, entries |-> <<>>, written |-> FALSE]
NoCall == [differ |-> "none"]

\* ------------------------------------------------------------ differ chain
\* construct_diff: the chain of the command line, most specific first.
StandardChain == <<"json", "text", "audio", "image", "binary">>

\* The chains handed to calc_diff: the tail of the standard chain, with and
\* without its last differ.
Chains ==
    {SubSeq(StandardChain, Len(StandardChain) - k + 1, Len(StandardChain)) : k \in 1..MaxChain}
    \cup
    {SubSeq(StandardChain, Len(StandardChain) - k, Len(StandardChain) - 1) : k \in 1..MaxChain}

\* DiffCalculator::diff of differ d: what it can answer for a pair.
\* BinaryDiffCalculator always answers Ok(MayUnsupported::Ok(..)).
DiffCalculator_diff(d) ==
    IF d = "binary" THEN {"Ok"} ELSE {"Ok", "Unsupported", "Err"}

\* A binary reporter that may decline.
DetailReporter_report_declining(d) == {"Ok", "Unsupported", "Err"}

\* DetailReporter::report_* of differ d: the binary reporter never declines;
\* writing into the sink can fail.
DetailReporter_report(d) ==
    IF d = "binary" THEN {"Ok", "Err"} ELSE {"Ok", "Unsupported", "Err"}

\* Diff::equal of the computed diff: the contents are the same.
equal(e, a) == e = a

\* DiffAndReport::diff / added / deleted: the answers of differ d to a task.
DiffAndReport(d, kind) ==
    IF kind = "diff"
    THEN (DiffCalculator_diff(d) \ {"Ok"})
         \cup (IF "Ok" \in DiffCalculator_diff(d) THEN DetailReporter_report(d) ELSE {})
    ELSE DetailReporter_report(d)

\* The two branches of `if diff.equal()` exchanged.
report_status_inverted(t) ==
    IF t.kind = "diff"
    THEN (IF t.expected = t.actual THEN "Modified" ELSE "Unchanged")
    ELSE IF t.kind = "added" THEN "Added" ELSE "Deleted"

\* The status a task's accepted differ records.
report_status(t) ==
    IF t.kind = "diff"
    THEN (IF equal(t.expected, t.actual) THEN "Unchanged" ELSE "Modified")
    ELSE IF t.kind = "added" THEN "Added" ELSE "Deleted"

\* ------------------------------------------------------------------ frames
\* calc_diff_inner(name, expected, actual, ..): the frame a call starts in.
\* NoNode is None.
calc_diff_inner(e, a, original_len) ==
    [mode |-> IF e # NoNode /\ a # NoNode THEN "both"
              ELSE IF e # NoNode THEN "expected" ELSE "actual",
     st |-> "enter", e |-> <<>>, a |-> <<>>,
     enode |-> e, anode |-> a, original_len |-> original_len]

Handle(item) == [side |-> item.side, path |-> item.path]

tree_of(side) == IF side = "E" THEN expected ELSE actual

node_children(n) == children(tree_of(n.side), n.side, n.path)

Top == stack[Len(stack)]

SetTop(f) == [stack EXCEPT ![Len(stack)] = f]

Pop == SubSeq(stack, 1, Len(stack) - 1)

\* spawn_task: a new task of the scope, with its own copy of the name.
spawn_task(kind, key, e, a) ==
    Append(tasks, [kind |-> kind, name |-> key, expected |-> e, actual |-> a,
                   idx |-> 1, st |-> "run", by |-> "none", ret |-> "none", log |-> <<>>])

\* record_error that stores nothing.
record_error_dropped(slot, error) == slot

\* record_error that stores the latest error.
record_error_overwrites(slot, error) == error

\* record_error: first writer wins.
record_error(slot, error) == IF slot = NoError THEN error ELSE slot

\* -------------------------------------------------------------------- Init
\* Where a leaf path of the pair of trees lies: in expected only, in actual
\* only, or in both with the same or with changed contents.  Only the
\* equality of the two contents of a paired leaf is observed, so expected
\* leaves hold 1 and an actual leaf holds 2 where it was changed.
Sides == {"expected", "actual", "same", "changed"}

ExpectedOf(S, where) == [p \in {q \in S : where[q] # "actual"} |-> 1]

ActualOf(S, where) ==
    [p \in {q \in S : where[q] # "expected"} |-> IF where[p] = "changed" THEN 2 ELSE 1]

TreePairs ==
    {pr \in UNION {{<<ExpectedOf(S, where), ActualOf(S, where)>> : where \in [S -> Sides]} :
                     S \in LeafSets} :
        PrefixFree(DOMAIN pr[1]) /\ PrefixFree(DOMAIN pr[2])}

Root(side) == [side |-> side, path |-> <<>>]

\* The state a call of calc_diff starts in.
Fresh ==
    /\ pc = "start"
    /\ stack = <<>>
    /\ name = <<>>
    /\ thrown = NoError
    /\ tasks = <<>>
    /\ errors = NoError
    /\ entries = EmptyMap
    /\ counts = ZeroCounts
    /\ events = <<>>
    /\ output = NoOutput
    /\ result = Pending
    /\ panicked = FALSE
    /\ failed = FALSE

Init ==
    /\ \E pr \in TreePairs : expected = pr[1] /\ actual = pr[2]
    /\ diff \in Chains
    /\ Fresh
    /\ round = 1
    /\ plan = "once"
    /\ first = {}
    /\ call = NoCall

\* ------------------------------------------------------------- calc_diff
input == <<expected, actual, diff, round, plan, first, call>>
sink == <<entries, counts, events, output>>

\* reporter.start(), then the root call of calc_diff_inner inside the scope.
Start ==
    /\ pc = "start"
    /\ \E ok \in BOOLEAN :
        /\ events' = Append(events, [ev |-> "Start", key |-> <<>>, ok |-> ok])
        /\ IF ok
           THEN /\ pc' = "walk"
                /\ stack' = <<calc_diff_inner(Root("E"), Root("A"), 0)>>
                /\ result' = result
           ELSE /\ pc' = "returned"
                /\ stack' = stack
                /\ result' = CalcDiffError("ReporterError", <<>>)
    /\ UNCHANGED <<input, name, thrown, tasks, errors, entries, counts, output, panicked, failed>>

\* (Some, Some): both child lists are collected and sorted.
ListBoth ==
    /\ pc = "walk"
    /\ Top.st = "enter"
    /\ Top.mode = "both"
    /\ \E eo \in Orders(node_children(Top.enode)), ao \in Orders(node_children(Top.anode)) :
        stack' = SetTop([Top EXCEPT !.st = "loop",
                                    !.e = sort_unstable(eo),
                                    !.a = sort_unstable(ao)])
    /\ UNCHANGED <<input, sink, pc, name, thrown, tasks, errors, result, panicked, failed>>

\* (Some, None) and (None, Some): the children are taken as the iterator
\* yields them.
ListOneSided ==
    /\ pc = "walk"
    /\ Top.st = "enter"
    /\ Top.mode # "both"
    /\ \E o \in Orders(node_children(IF Top.mode = "expected" THEN Top.enode ELSE Top.anode)) :
        stack' = SetTop([Top EXCEPT !.st = "loop",
                                    !.e = IF Top.mode = "expected" THEN o ELSE <<>>,
                                    !.a = IF Top.mode = "actual" THEN o ELSE <<>>])
    /\ UNCHANGED <<input, sink, pc, name, thrown, tasks, errors, result, panicked, failed>>

\* children() fails, or the iterator yields an Err: the frame returns it.
TraverseFail ==
    /\ pc = "walk"
    /\ Top.st = "enter" \/ Top.mode # "both"
    /\ pc' = "unwind"
    /\ thrown' = CalcDiffError("TraverseError", name)
    /\ failed' = TRUE
    /\ UNCHANGED <<input, sink, stack, name, tasks, errors, result, panicked>>

\* The two-finger merge: which heads the loop takes.
merge_pair(e, a) ==
    IF e # <<>> /\ a # <<>>
    THEN (CASE cmp(Head(e), Head(a)) = "Less" -> "expected"
            [] cmp(Head(e), Head(a)) = "Equal" -> "both"
            [] OTHER -> "actual")
    ELSE IF e # <<>> THEN "expected" ELSE "actual"

\* The (Some, None) recursion with its two arguments exchanged.
recurse_deleted_as_added(node, original_len) ==
    calc_diff_inner(NoNode, Handle(node), original_len)

\* The recursion of the (Some, None) branch for a child directory.
recurse_deleted(node, original_len) == calc_diff_inner(Handle(node), NoNode, original_len)

\* The recursion of the (None, Some) branch for a child directory.
recurse_added(node, original_len) == calc_diff_inner(Handle(node), NoNode, original_len)

\* One turn of the merge loop of the (Some, Some) branch.
MergeStep ==
    /\ pc = "walk"
    /\ Top.st = "loop"
    /\ Top.mode = "both"
    /\ Top.e # <<>> \/ Top.a # <<>>
    /\ LET take == merge_pair(Top.e, Top.a)
           x == IF take = "actual" THEN Head(Top.a) ELSE Head(Top.e)
           y == IF take = "expected" THEN Head(Top.e) ELSE Head(Top.a)
           rest == [Top EXCEPT !.e = IF take = "actual" THEN @ ELSE Tail(@),
                               !.a = IF take = "expected" THEN @ ELSE Tail(@)]
           appended == AppendedName_new(name, x.name)
           child == IF take = "both"
                    THEN calc_diff_inner(Handle(x), Handle(y), Len(name))
                    ELSE IF take = "expected"
                    THEN calc_diff_inner(Handle(x), NoNode, Len(name))
                    ELSE calc_diff_inner(NoNode, Handle(x), Len(name))
       IN  IF x.kind = "Node" /\ y.kind = "Node"
           THEN /\ stack' = Append(SetTop(rest), child)
                /\ name' = appended
                /\ UNCHANGED <<tasks, panicked>>
           ELSE IF x.kind = "Leaf" /\ y.kind = "Leaf"
           THEN /\ stack' = SetTop(rest)
                /\ tasks' = spawn_task(IF take = "both" THEN "diff"
                                       ELSE IF take = "expected" THEN "deleted" ELSE "added",
                                       appended, x.value, y.value)
                /\ name' = AppendedName_drop(appended, Len(name))
                /\ UNCHANGED panicked
           ELSE /\ panicked' = TRUE
                /\ stack' = SetTop(rest)
                /\ UNCHANGED <<name, tasks>>
    /\ pc' = IF panicked' THEN "join" ELSE pc
    /\ UNCHANGED <<input, sink, thrown, errors, result, failed>>

\* One turn of the for loop of the (Some, None) or (None, Some) branch.
OneSidedStep ==
    /\ pc = "walk"
    /\ Top.st = "loop"
    /\ Top.mode # "both"
    /\ Top.e # <<>> \/ Top.a # <<>>
    /\ LET x == IF Top.mode = "expected" THEN Head(Top.e) ELSE Head(Top.a)
           rest == [Top EXCEPT !.e = IF @ = <<>> THEN @ ELSE Tail(@),
                               !.a = IF @ = <<>> THEN @ ELSE Tail(@)]
           appended == AppendedName_new(name, x.name)
       IN  IF x.kind = "Node"
           THEN /\ stack' = Append(SetTop(rest),
                                   IF Top.mode = "expected"
                                   THEN recurse_deleted(x, Len(name))
                                   ELSE recurse_added(x, Len(name)))
                /\ name' = appended
                /\ tasks' = tasks
           ELSE /\ stack' = SetTop(rest)
                /\ tasks' = spawn_task(IF Top.mode = "expected" THEN "deleted" ELSE "added",
                                       appended, x.value, x.value)
                /\ name' = AppendedName_drop(appended, Len(name))
    /\ UNCHANGED <<input, sink, pc, thrown, errors, result, panicked, failed>>

\* The frame returns Ok(()): the caller's AppendedName is dropped; the root
\* call returns into calc_diff, which waits for the scope.
FrameReturn ==
    /\ pc = "walk"
    /\ Top.st = "loop"
    /\ Top.e = <<>> /\ Top.a = <<>>
    /\ stack' = Pop
    /\ name' = IF Len(stack) = 1 THEN name ELSE AppendedName_drop(name, Top.original_len)
    /\ pc' = IF Len(stack) = 1 THEN "join" ELSE "walk"
    /\ UNCHANGED <<input, sink, thrown, tasks, errors, result, panicked, failed>>

\* The frame returns Err through `?`; the root call's Err is recorded.
Unwind ==
    /\ pc = "unwind"
    /\ stack' = Pop
    /\ name' = IF Len(stack) = 1 THEN name ELSE AppendedName_drop(name, Top.original_len)
    /\ IF Len(stack) = 1
       THEN /\ pc' = "join"
            /\ errors' = record_error(errors, thrown)
            /\ thrown' = NoError
       ELSE UNCHANGED <<pc, errors, thrown>>
    /\ UNCHANGED <<input, sink, tasks, result, panicked, failed>>

\* ------------------------------------------------------------- leaf tasks
\* JsonReport::record_*: the counter, then insert_entry with its assert.
\* An increment that stores one more than the initial value it read, whatever
\* the other tasks have added since.
record_counts_lost(c, status) == [c EXCEPT ![status] = 1]

record_counts(c, status) == [c EXCEPT ![status] = @ + 1]

insert_entry(m, key, entry) ==
    [k \in DOMAIN m \cup {key} |-> IF k = key THEN entry ELSE m[k]]

\* A loop that also goes on after an Err (the `?` left out).
next_differ_after_error(answer) == answer # "Ok"

\* run_diff / run_added / run_deleted: whether the loop goes on to the next
\* differ after this answer.
next_differ(answer) == answer = "Unsupported"

\* One turn of the loop of run_diff / run_added / run_deleted of task i: the
\* differ at idx is consulted; through spawn_task an Err is recorded.
Consult(i) ==
    /\ tasks[i].st = "run"
    /\ LET t == tasks[i]
           d == diff[t.idx]
       IN  \E answer \in DiffAndReport(d, t.kind) :
           LET logged == [t EXCEPT !.log = Append(@, [differ |-> d, answer |-> answer])]
           IN  IF answer = "Ok"
               THEN /\ counts' = record_counts(counts, report_status(t))
                    /\ entries' = insert_entry(entries, t.name,
                                               [status |-> report_status(t), compares |-> d])
                    /\ panicked' = (panicked \/ t.name \in DOMAIN entries)
                    /\ events' = Append(events, [ev |-> report_status(t), key |-> t.name, ok |-> TRUE])
                    /\ tasks' = [tasks EXCEPT ![i] = [logged EXCEPT !.st = "ok", !.by = d, !.ret = "Ok"]]
                    /\ UNCHANGED <<errors, failed>>
               ELSE IF next_differ(answer) /\ t.idx < Len(diff)
               THEN /\ tasks' = [tasks EXCEPT ![i] = [logged EXCEPT !.idx = @ + 1]]
                    /\ UNCHANGED <<errors, failed, entries, counts, events, panicked>>
               ELSE LET error == IF next_differ(answer) THEN "NoDiffReportMatched"
                                 ELSE "DiffError"
                    IN  /\ tasks' = [tasks EXCEPT ![i] = [logged EXCEPT !.st = "err",
                                                                        !.ret = error]]
                        /\ errors' = record_error(errors, CalcDiffError(error, t.name))
                        /\ failed' = TRUE
                        /\ UNCHANGED <<entries, counts, events, panicked>>
    /\ UNCHANGED <<input, pc, stack, name, thrown, result, output>>

\* A map built from the iterator without ordering its keys.
BTreeMap_from_iter_unordered(items) == items

RECURSIVE BTreeMap_insert(_, _)
BTreeMap_insert(item, m) ==
    IF m = <<>> THEN <<item>>
    ELSE IF str_cmp(item.key, Head(m).key) = "Greater"
    THEN <<Head(m)>> \o BTreeMap_insert(item, Tail(m))
    ELSE <<item>> \o m

RECURSIVE BTreeMap_fold(_, _)
BTreeMap_fold(items, m) ==
    IF items = <<>> THEN m ELSE BTreeMap_fold(Tail(items), BTreeMap_insert(Head(items), m))

\* BTreeMap::from_iter: the items in ascending order of their String keys.
BTreeMap_from_iter(items) == BTreeMap_fold(items, <<>>)

\* JsonReport::finish: the four counters and the entries of the DashMap, which
\* it iterates in the order iter, collected into a BTreeMap and serialized.
JsonReport_finish(c, m, iter) ==
    [counts |-> c,
     entries |-> BTreeMap_from_iter([i \in 1..Len(iter) |->
                    [key |-> iter[i], status |-> m[iter[i]].status,
                     compares |-> m[iter[i]].compares]]),
     written |-> TRUE]

\* A scope that does not wait for its tasks.
scope_joined_early == TRUE

\* The scope has joined when every task it spawned has ended.
\* A scope that stops waiting once a failure was seen.
scope_joined_cancelling ==
    failed \/ \A i \in 1..Len(tasks) : tasks[i].st # "run"

scope_joined == \A i \in 1..Len(tasks) : tasks[i].st # "run"

\* After rayon::scope: the stored error is returned, else finish() is called.
Join ==
    /\ pc = "join"
    /\ scope_joined
    /\ pc' = "returned"
    /\ IF panicked
       THEN /\ result' = CalcDiffError("Panic", <<>>)
            /\ UNCHANGED <<errors, events, output>>
       ELSE IF errors # NoError
       THEN /\ result' = errors
            /\ errors' = NoError
            /\ UNCHANGED <<events, output>>
       ELSE /\ \E ok \in BOOLEAN :
                 /\ events' = Append(events, [ev |-> "Finish", key |-> <<>>, ok |-> ok])
                 /\ result' = IF ok THEN OkResult ELSE CalcDiffError("ReporterError", <<>>)
                 /\ \E iter \in Orders(DOMAIN entries) :
                        output' = IF ok THEN JsonReport_finish(counts, entries, iter)
                                  ELSE output
            /\ UNCHANGED errors
    /\ UNCHANGED <<input, stack, name, thrown, tasks, entries, counts, panicked, failed>>

Walk ==
    \/ Start
    \/ ListBoth
    \/ ListOneSided
    \/ TraverseFail
    \/ MergeStep
    \/ OneSidedStep
    \/ FrameReturn
    \/ Unwind
    \/ Join

Next ==
    \/ Walk
    \/ \E i \in 1..Len(tasks) : Consult(i)

Spec == Init /\ [][Next]_vars

\* ---------------------------------------------------- two calls of calc_diff
\* The (status, key) events a call reported.
reported == {[status |-> events[i].ev, key |-> events[i].key] :
                i \in {j \in 1..Len(events) : events[j].ev \in Statuses}}

\* calc_diff is called a second time: on the same two trees, or with the two
\* trees exchanged.
Rerun ==
    /\ pc = "returned"
    /\ result = OkResult
    /\ round = 1
    /\ round' = 2
    /\ first' = reported
    /\ expected' = IF plan = "swap" THEN actual ELSE expected
    /\ actual' = IF plan = "swap" THEN expected ELSE actual
    /\ pc' = "start"
    /\ stack' = <<>>
    /\ name' = <<>>
    /\ thrown' = NoError
    /\ tasks' = <<>>
    /\ errors' = NoError
    /\ entries' = EmptyMap
    /\ counts' = ZeroCounts
    /\ events' = <<>>
    /\ output' = NoOutput
    /\ result' = Pending
    /\ panicked' = FALSE
    /\ failed' = FALSE
    /\ UNCHANGED <<diff, plan, call>>

InitPair ==
    /\ \E pr \in TreePairs : expected = pr[1] /\ actual = pr[2]
    /\ diff = SubSeq(StandardChain, Len(StandardChain) - MaxChain + 1, Len(StandardChain))
    /\ Fresh
    /\ round = 1
    /\ plan \in {"swap", "same"}
    /\ first = {}
    /\ call = NoCall

NextPair ==
    \/ Next
    \/ Rerun

SpecPair == InitPair /\ [][NextPair]_vars

\* ------------------------------------------------------------ JSON values
\* serde_json::Value with insertion-ordered objects: a number, an array of
\* values, or an object, the sequence of its (key, value) entries.
MaxJsonNodes == 3
MaxJsonLen == 2
MaxReorderNodes == 5
JsonNumbers == {1, 2}
JsonKeys == {<<"a">>, <<"b">>}

Number(n) == [t |-> "num", n |-> n, v |-> <<>>]
Array(items) == [t |-> "arr", n |-> 0, v |-> items]
Object(members) == [t |-> "obj", n |-> 0, v |-> members]
Member(k, v) == [k |-> k, v |-> v]

\* The sequences of length len whose items have sizes summing to total, the
\* items taken from sized[n] for their size n.
RECURSIVE JsonSeqs(_, _, _)
JsonSeqs(sized, len, total) ==
    IF len = 0 THEN (IF total = 0 THEN {<<>>} ELSE {})
    ELSE UNION {{<<x>> \o rest : x \in sized[n], rest \in JsonSeqs(sized, len - 1, total - n)} :
                    n \in 1..total}

\* The key lists of an object: distinct keys in any order.
KeyLists(len) ==
    {ks \in [1..len -> JsonKeys] : \A i, j \in 1..len : ks[i] = ks[j] => i = j}

\* sized[n] is the set of values made of n nodes.
RECURSIVE JsonSized(_)
JsonSized(n) ==
    IF n = 0 THEN <<>>
    ELSE LET sized == JsonSized(n - 1)
             arrays == UNION {{Array(items) : items \in JsonSeqs(sized, len, n - 1)} :
                                len \in 0..MaxJsonLen}
             objects == UNION {{Object([i \in 1..len |-> Member(ks[i], vs[i])]) :
                                    ks \in KeyLists(len), vs \in JsonSeqs(sized, len, n - 1)} :
                                len \in 0..MaxJsonLen}
         IN  Append(sized, (IF n = 1 THEN {Number(x) : x \in JsonNumbers} ELSE {})
                            \cup arrays \cup objects)

JsonUpTo(n) == UNION {JsonSized(n)[k] : k \in 1..n}

JsonValues == JsonUpTo(MaxJsonNodes)

\* Value::sort_all_objects: every object's entries in ascending key order.
RECURSIVE sort_keys(_)
sort_keys(members) ==
    IF members = <<>> THEN <<>>
    ELSE LET least == CHOOSE i \in 1..Len(members) :
                        \A j \in 1..Len(members) :
                            str_cmp(members[i].k, members[j].k) \in {"Less", "Equal"}
         IN  <<members[least]>> \o
             sort_keys([j \in 1..(Len(members) - 1) |->
                            members[IF j < least THEN j ELSE j + 1]])

RECURSIVE sort_all_objects(_)
sort_all_objects(value) ==
    CASE value.t = "num" -> value
      [] value.t = "arr" -> Array([i \in 1..Len(value.v) |-> sort_all_objects(value.v[i])])
      [] value.t = "obj" ->
            Object(sort_keys([i \in 1..Len(value.v) |->
                                Member(value.v[i].k, sort_all_objects(value.v[i].v))]))

\* PartialEq for Value: arrays item by item, objects as maps, whatever the
\* order of their entries.
RECURSIVE Value_eq(_, _)
Value_eq(x, y) ==
    /\ x.t = y.t
    /\ Len(x.v) = Len(y.v)
    /\ CASE x.t = "num" -> x.n = y.n
         [] x.t = "arr" -> \A i \in 1..Len(x.v) : Value_eq(x.v[i], y.v[i])
         [] x.t = "obj" ->
                \A i \in 1..Len(x.v) : \E j \in 1..Len(y.v) :
                    x.v[i].k = y.v[j].k /\ Value_eq(x.v[i].v, y.v[j].v)

\* ------------------------------------------------------------- JSON text
\* A text is a sequence of tokens and a line is a text; white space, which
\* JSON ignores, is left out.  A key is written with its colon.
NumberToken(n) == <<"num", n>>
KeyToken(k) == <<"key", k>>
Punct(c) == <<"punct", c>>

RECURSIVE Flatten(_)
Flatten(lines) == IF lines = <<>> THEN <<>> ELSE Head(lines) \o Flatten(Tail(lines))

\* format!("{}{}", last_line, if need_extra_comma { "," } else { "" }) on
\* the last of the lines.
with_comma(lines, need_extra_comma) ==
    IF need_extra_comma
    THEN [lines EXCEPT ![Len(lines)] = Append(@, Punct(","))]
    ELSE lines

\* format!("{k}: {first_line}") on the first of the lines.
with_key(k, lines) == [lines EXCEPT ![1] = <<KeyToken(k)>> \o @]

\* serde_json::to_string_pretty, line by line: an empty container is one
\* line, any other container has one line for each bracket and the lines of
\* its items between them, each item but the last followed by a comma.
RECURSIVE to_string_pretty(_)
RECURSIVE pretty_items(_, _)
pretty_items(value, i) ==
    IF i > Len(value.v) THEN <<>>
    ELSE LET item == IF value.t = "arr"
                     THEN to_string_pretty(value.v[i])
                     ELSE with_key(value.v[i].k, to_string_pretty(value.v[i].v))
         IN  with_comma(item, i < Len(value.v)) \o pretty_items(value, i + 1)

to_string_pretty(value) ==
    LET open == IF value.t = "arr" THEN Punct("[") ELSE Punct("{")
        close == IF value.t = "arr" THEN Punct("]") ELSE Punct("}")
    IN  IF value.t = "num" THEN <<<<NumberToken(value.n)>>>>
        ELSE IF value.v = <<>> THEN <<<<open, close>>>>
        ELSE <<<<open>>>> \o pretty_items(value, 1) \o <<<<close>>>>

\* serde_json::to_string / Display for Value: the same tokens on one line.
to_string(value) == Flatten(to_string_pretty(value))

\* JsonDiffLine::unchanged / added / deleted.
JsonDiffLine_unchanged(indent, e, a) ==
    [indent |-> indent, tag |-> "Unchanged", expected |-> e, actual |-> a]
JsonDiffLine_added(indent, a) ==
    [indent |-> indent, tag |-> "Added", expected |-> <<>>, actual |-> a]
JsonDiffLine_deleted(indent, e) ==
    [indent |-> indent, tag |-> "Deleted", expected |-> e, actual |-> <<>>]

\* ------------------------------------------------------- patience diff
\* similar::algorithms: an alignment is a set of pairs <<old index, new
\* index>> of equal items that keeps the order on both sides.
Monotone(M) ==
    \A p \in M, q \in M :
        p = q \/ (p[1] < q[1] /\ p[2] < q[2]) \/ (p[1] > q[1] /\ p[2] > q[2])

CommonSubsequences(xs, ys, I, J) ==
    {M \in SUBSET {p \in I \X J : xs[p[1]] = ys[p[2]]} : Monotone(M)}

\* A diff that finds nothing in common.
myers_none(xs, ys, I, J) == {{}}

\* myers::diff over the index ranges I and J: a longest common subsequence;
\* which one is the library's choice.
myers(xs, ys, I, J) ==
    LET all == CommonSubsequences(xs, ys, I, J)
    IN  {M \in all : \A N \in all : Cardinality(N) <= Cardinality(M)}

\* patience::unique: the indices of the items that occur once.
unique(xs) == {i \in 1..Len(xs) : \A j \in 1..Len(xs) : xs[j] = xs[i] => j = i}

\* The alignment's pairs in ascending order, then the end of both sides.
SortedPoints(M, m, n) ==
    Append([k \in 1..Cardinality(M) |->
                CHOOSE p \in M : Cardinality({q \in M : q[1] < p[1]}) = k - 1],
           <<m + 1, n + 1>>)

\* The pair before point k, or the start of both sides.
PrevPoint(points, k) == IF k = 1 THEN <<0, 0>> ELSE points[k - 1]

\* patience::diff: myers over the unique items gives the anchors, myers over
\* the ranges between two anchors gives the rest.
patience(xs, ys) ==
    UNION {
        {M \in CommonSubsequences(xs, ys, 1..Len(xs), 1..Len(ys)) :
            /\ A \subseteq M
            /\ LET points == SortedPoints(A, Len(xs), Len(ys))
               IN  \A k \in 1..Len(points) :
                    LET I == (PrevPoint(points, k)[1] + 1)..(points[k][1] - 1)
                        J == (PrevPoint(points, k)[2] + 1)..(points[k][2] - 1)
                    IN  {p \in M : p[1] \in I /\ p[2] \in J} \in myers(xs, ys, I, J)} :
        A \in myers(xs, ys, unique(xs), unique(ys))}

\* What a diff hook leaves behind: the lines it pushed, or a panic.
Lines(lines) == [panic |-> FALSE, lines |-> lines]
Panic == [panic |-> TRUE, lines |-> <<>>]

\* The outcomes of one piece of a hook followed by the next.
then(A, B) ==
    {IF x.panic \/ y.panic THEN Panic ELSE Lines(x.lines \o y.lines) : x \in A, y \in B}

\* The ways myers may order the deletions and the insertions of a range
\* that holds no common item.
RECURSIVE Merges(_, _)
Merges(x, y) ==
    IF x = <<>> THEN {y}
    ELSE IF y = <<>> THEN {x}
    ELSE {<<Head(x)>> \o r : r \in Merges(Tail(x), y)}
         \cup {<<Head(y)>> \o r : r \in Merges(x, Tail(y))}

\* ------------------------------------------------------------- json_diff
RECURSIVE json_array_diff(_, _, _)
RECURSIVE json_object_diff(_, _, _)
RECURSIVE array_walk(_, _, _, _, _)
RECURSIVE object_walk(_, _, _, _, _)
RECURSIVE replace_emit(_, _, _, _, _, _, _, _)
RECURSIVE pair_up(_, _)

Max(S) == CHOOSE x \in S : \A y \in S : y <= x
Min(S) == CHOOSE x \in S : \A y \in S : x <= y
abs_diff(x, y) == IF x < y THEN y - x ELSE x - y

\* ArrayDiffHook::delete / insert for one item: its pretty lines, a comma
\* after the last one unless the item is the last of its array.
array_item(items, i, tag, indent) ==
    LET lines == with_comma(to_string_pretty(items[i]), i < Len(items))
    IN  [k \in 1..Len(lines) |->
            IF tag = "Deleted" THEN JsonDiffLine_deleted(indent, lines[k])
            ELSE JsonDiffLine_added(indent, lines[k])]

array_delete(expected_items, old_index, old_len, indent) ==
    Flatten([k \in 1..old_len |-> array_item(expected_items, old_index + k - 1, "Deleted", indent)])

array_insert(actual_items, new_index, new_len, indent) ==
    Flatten([k \in 1..new_len |-> array_item(actual_items, new_index + k - 1, "Added", indent)])

\* ArrayDiffHook::equal for one pair: the pretty lines of the expected item
\* on both sides, the comma of the last line decided side by side.
array_equal(expected_items, actual_items, expected_index, actual_index, indent) ==
    LET lines == to_string_pretty(expected_items[expected_index])
        e == with_comma(lines, expected_index < Len(expected_items))
        a == with_comma(lines, actual_index < Len(actual_items))
    IN  [k \in 1..Len(lines) |-> JsonDiffLine_unchanged(indent, e[k], a[k])]

\* The lines of a container both sides have: its opening bracket, the diff
\* of its contents, its closing bracket with each side's comma.
nested(opening, inner, close, comma_expected, comma_actual, indent) ==
    then({Lines(<<JsonDiffLine_unchanged(indent, opening, opening)>>)},
         then(inner,
              {Lines(<<JsonDiffLine_unchanged(indent,
                            with_comma(<<<<Punct(close)>>>>, comma_expected)[1],
                            with_comma(<<<<Punct(close)>>>>, comma_actual)[1])>>)}))

\* ArrayDiffHook::replace, the queue: the pairs of two arrays or two objects
\* with how much they differ in size and in position.
replace_queue(expected_items, actual_items, old_index, old_len, new_index, new_len) ==
    LET weight(x, y) ==
            IF x.t = "arr" THEN abs_diff(Len(x.v), Len(y.v))
            ELSE Cardinality({i \in 1..Len(x.v) : \A j \in 1..Len(y.v) : y.v[j].k # x.v[i].k})
                 + Cardinality({j \in 1..Len(y.v) : \A i \in 1..Len(x.v) : x.v[i].k # y.v[j].k})
    IN  {[size |-> weight(expected_items[old_index + p[1] - 1], actual_items[new_index + p[2] - 1]),
          index_diff |-> abs_diff(p[1], p[2]),
          expected_index |-> p[1], actual_index |-> p[2]] :
            p \in {p \in (1..old_len) \X (1..new_len) :
                    /\ expected_items[old_index + p[1] - 1].t = actual_items[new_index + p[2] - 1].t
                    /\ expected_items[old_index + p[1] - 1].t # "num"}}

\* BinaryHeap::pop over (Reverse(size), Reverse(index_diff), expected_index,
\* actual_index): the greatest tuple.
heap_less(d, c) ==
    \/ d.size > c.size
    \/ d.size = c.size /\ d.index_diff > c.index_diff
    \/ d.size = c.size /\ d.index_diff = c.index_diff /\ d.expected_index < c.expected_index
    \/ /\ d.size = c.size /\ d.index_diff = c.index_diff
       /\ d.expected_index = c.expected_index /\ d.actual_index < c.actual_index

\* map[..index].iter().rev().find_map(..) and map[index..].iter().find_map(..);
\* 0 is None.
nearest_left(map, index) ==
    LET S == {i \in 1..(index - 1) : map[i] # 0} IN IF S = {} THEN 0 ELSE map[Max(S)]
nearest_right(map, index) ==
    LET S == {i \in index..Len(map) : map[i] # 0} IN IF S = {} THEN 0 ELSE map[Min(S)]

\* Every popped pair with two unpaired items is kept.
is_none_or_any(found, index) == TRUE

is_none_or_less(found, index) == found = 0 \/ found < index

\* BinaryHeap::pop: the greatest candidate of the queue.
heap_pop(q) == CHOOSE c \in q : \A d \in q : d = c \/ heap_less(d, c)

\* The four requirements on a popped candidate.
requirements(maps, c) ==
    /\ is_none_or_less(nearest_left(maps.expected_to_actual, c.expected_index), c.actual_index)
    /\ is_none_or_less(nearest_right(maps.expected_to_actual, c.expected_index), c.actual_index)
    /\ is_none_or_less(nearest_left(maps.actual_to_expected, c.actual_index), c.expected_index)
    /\ is_none_or_less(nearest_right(maps.actual_to_expected, c.actual_index), c.expected_index)

\* One turn of the while-let loop over the queue: the popped pair is skipped
\* when one of its items is paired already, kept when the four requirements
\* hold, dropped when not.
replace_turn(q, maps) ==
    LET c == heap_pop(q)
        ei == c.expected_index
        ai == c.actual_index
        verdict == IF maps.expected_to_actual[ei] # 0 \/ maps.actual_to_expected[ai] # 0
                   THEN "continue"
                   ELSE IF requirements(maps, c) THEN "paired" ELSE "dropped"
    IN  [c |-> c, verdict |-> verdict, before |-> maps, q |-> q \ {c},
         maps |-> IF verdict = "paired"
                  THEN [expected_to_actual |-> [maps.expected_to_actual EXCEPT ![ei] = ai],
                        actual_to_expected |-> [maps.actual_to_expected EXCEPT ![ai] = ei]]
                  ELSE maps]

\* The while-let loop over the queue.
pair_up(q, maps) ==
    IF q = {} THEN maps
    ELSE pair_up(replace_turn(q, maps).q, replace_turn(q, maps).maps)

\* ArrayDiffHook::replace, the last loop from the items at i and j on: the
\* unpaired expected items are deleted, the unpaired actual items inserted,
\* and the next two items must be each other's pair.
replace_emit(expected_items, actual_items, old_index, new_index, maps, i, j, indent) ==
    LET e2a == maps.expected_to_actual
        a2e == maps.actual_to_expected
        expected_index == old_index + i - 1
        actual_index == new_index + j - 1
    IN  IF i <= Len(e2a) /\ e2a[i] = 0
        THEN then({Lines(array_delete(expected_items, expected_index, 1, indent))},
                  replace_emit(expected_items, actual_items, old_index, new_index, maps,
                               i + 1, j, indent))
        ELSE IF j <= Len(a2e) /\ a2e[j] = 0
        THEN then({Lines(array_insert(actual_items, actual_index, 1, indent))},
                  replace_emit(expected_items, actual_items, old_index, new_index, maps,
                               i, j + 1, indent))
        ELSE IF i > Len(e2a) /\ j > Len(a2e) THEN {Lines(<<>>)}
        ELSE IF i > Len(e2a) \/ j > Len(a2e) THEN {Panic}
        ELSE IF a2e[j] # i \/ e2a[i] # j THEN {Panic}
        ELSE LET x == expected_items[expected_index]
                 y == actual_items[actual_index]
                 comma_expected == expected_index < Len(expected_items)
                 comma_actual == actual_index < Len(actual_items)
                 pair == IF x.t = "arr" /\ y.t = "arr"
                         THEN nested(<<Punct("[")>>, json_array_diff(x.v, y.v, indent + 1),
                                     "]", comma_expected, comma_actual, indent)
                         ELSE IF x.t = "obj" /\ y.t = "obj"
                         THEN nested(<<Punct("{")>>, json_object_diff(x.v, y.v, indent + 1),
                                     "}", comma_expected, comma_actual, indent)
                         ELSE {Panic}
             IN  then(pair,
                      replace_emit(expected_items, actual_items, old_index, new_index, maps,
                                   i + 1, j + 1, indent))

\* ArrayDiffHook::replace.
array_replace(expected_items, actual_items, old_index, old_len, new_index, new_len, indent) ==
    LET maps == pair_up(replace_queue(expected_items, actual_items,
                                      old_index, old_len, new_index, new_len),
                        [expected_to_actual |-> [i \in 1..old_len |-> 0],
                         actual_to_expected |-> [j \in 1..new_len |-> 0]])
    IN  replace_emit(expected_items, actual_items, old_index, new_index, maps, 1, 1, indent)

\* The calls Replace makes on the ArrayDiffHook from point k of an alignment
\* on: for the range before the point replace, delete or insert, then equal
\* for the point.
array_walk(expected_items, actual_items, points, k, indent) ==
    LET prev == PrevPoint(points, k)
        old_index == prev[1] + 1
        old_len == points[k][1] - old_index
        new_index == prev[2] + 1
        new_len == points[k][2] - new_index
        range == IF old_len > 0 /\ new_len > 0
                 THEN array_replace(expected_items, actual_items,
                                    old_index, old_len, new_index, new_len, indent)
                 ELSE IF old_len > 0
                 THEN {Lines(array_delete(expected_items, old_index, old_len, indent))}
                 ELSE IF new_len > 0
                 THEN {Lines(array_insert(actual_items, new_index, new_len, indent))}
                 ELSE {Lines(<<>>)}
    IN  IF k = Len(points) THEN range
        ELSE then(range,
                  then({Lines(array_equal(expected_items, actual_items,
                                          points[k][1], points[k][2], indent))},
                       array_walk(expected_items, actual_items, points, k + 1, indent)))

\* json_array_diff: patience over the items, compared as values.
json_array_diff(expected_items, actual_items, indent) ==
    UNION {array_walk(expected_items, actual_items,
                      SortedPoints(M, Len(expected_items), Len(actual_items)), 1, indent) :
            M \in patience([i \in 1..Len(expected_items) |-> sort_all_objects(expected_items[i])],
                           [i \in 1..Len(actual_items) |-> sort_all_objects(actual_items[i])])}

\* ObjectDiffHook::delete / insert for the member at index i: a scalar on
\* one line with its comma; a container with the key on its first line and
\* the comma on the last of the lines that follow the first.
object_member(members, i, tag, indent) ==
    LET need_extra_comma == i < Len(members)
        k == members[i].k
        v == members[i].v
        pretty == to_string_pretty(v)
        rest == SubSeq(pretty, 2, Len(pretty))
        lines == IF v.t = "num"
                 THEN with_comma(<<<<KeyToken(k)>> \o to_string(v)>>, need_extra_comma)
                 ELSE <<<<KeyToken(k)>> \o pretty[1]>>
                      \o (IF rest = <<>> THEN <<>> ELSE with_comma(rest, need_extra_comma))
    IN  [n \in 1..Len(lines) |->
            IF tag = "Deleted" THEN JsonDiffLine_deleted(indent, lines[n])
            ELSE JsonDiffLine_added(indent, lines[n])]

\* assert_eq!(old_len, 1) and assert_eq!(new_len, 1).
object_delete(expected_members, old_index, old_len, indent) ==
    IF old_len # 1 THEN {Panic}
    ELSE {Lines(object_member(expected_members, old_index, "Deleted", indent))}

object_insert(actual_members, new_index, new_len, indent) ==
    IF new_len # 1 THEN {Panic}
    ELSE {Lines(object_member(actual_members, new_index, "Added", indent))}

\* Map::get.
get(members, k) == members[CHOOSE j \in 1..Len(members) : members[j].k = k].v

\* ObjectDiffHook::equal for a key both sides have.
object_equal(expected_members, actual_members, old_index, new_index, indent) ==
    LET comma_expected == old_index < Len(expected_members)
        comma_actual == new_index < Len(actual_members)
        k == expected_members[old_index].k
        expected_v == get(expected_members, k)
        actual_v == get(actual_members, k)
        line == <<<<KeyToken(k)>> \o to_string(expected_v)>>
    IN  IF expected_v.t = "num" /\ actual_v.t = "num" /\ Value_eq(expected_v, actual_v)
        THEN {Lines(<<JsonDiffLine_unchanged(indent, with_comma(line, comma_expected)[1],
                                             with_comma(line, comma_actual)[1])>>)}
        ELSE IF expected_v.t = "arr" /\ actual_v.t = "arr"
        THEN nested(<<KeyToken(k), Punct("[")>>,
                    json_array_diff(expected_v.v, actual_v.v, indent + 1),
                    "]", comma_expected, comma_actual, indent)
        ELSE IF expected_v.t = "obj" /\ actual_v.t = "obj"
        THEN nested(<<KeyToken(k), Punct("{")>>,
                    json_object_diff(expected_v.v, actual_v.v, indent + 1),
                    "}", comma_expected, comma_actual, indent)
        ELSE then(object_delete(expected_members, old_index, 1, indent),
                  object_insert(actual_members, new_index, 1, indent))

\* The calls myers makes on the ObjectDiffHook for a range without a common
\* key: one delete or one insert when one side is empty; otherwise deletes
\* and inserts in some order, of one key or of several keys at once.
object_range(expected_members, actual_members, old_index, old_len, new_index, new_len, indent) ==
    IF old_len = 0 /\ new_len = 0 THEN {Lines(<<>>)}
    ELSE IF new_len = 0 THEN object_delete(expected_members, old_index, old_len, indent)
    ELSE IF old_len = 0 THEN object_insert(actual_members, new_index, new_len, indent)
    ELSE (IF old_len > 1 \/ new_len > 1 THEN {Panic} ELSE {})
         \cup {Lines(Flatten(order)) :
                order \in Merges([n \in 1..old_len |->
                                    object_member(expected_members, old_index + n - 1,
                                                  "Deleted", indent)],
                                 [n \in 1..new_len |->
                                    object_member(actual_members, new_index + n - 1,
                                                  "Added", indent)])}

\* The calls patience makes on the ObjectDiffHook from point k of an
\* alignment of the keys on.
object_walk(expected_members, actual_members, points, k, indent) ==
    LET prev == PrevPoint(points, k)
        range == object_range(expected_members, actual_members,
                              prev[1] + 1, points[k][1] - prev[1] - 1,
                              prev[2] + 1, points[k][2] - prev[2] - 1, indent)
    IN  IF k = Len(points) THEN range
        ELSE then(range,
                  then(object_equal(expected_members, actual_members,
                                    points[k][1], points[k][2], indent),
                       object_walk(expected_members, actual_members, points, k + 1, indent)))

\* json_object_diff: patience over the two key lists.
json_object_diff(expected_members, actual_members, indent) ==
    UNION {object_walk(expected_members, actual_members,
                       SortedPoints(M, Len(expected_members), Len(actual_members)), 1, indent) :
            M \in patience([i \in 1..Len(expected_members) |-> expected_members[i].k],
                           [i \in 1..Len(actual_members) |-> actual_members[i].k])}

\* json_diff: what the call leaves, the lines or a panic.
json_diff(expected_value, actual_value) ==
    IF expected_value.t = "num" /\ actual_value.t = "num"
    THEN (IF Value_eq(expected_value, actual_value)
          THEN {Lines(<<JsonDiffLine_unchanged(0, to_string(expected_value),
                                               to_string(actual_value))>>)}
          ELSE {Lines(<<JsonDiffLine_deleted(0, to_string(expected_value)),
                        JsonDiffLine_added(0, to_string(actual_value))>>)})
    ELSE IF expected_value.t = "arr" /\ actual_value.t = "arr"
    THEN nested(<<Punct("[")>>, json_array_diff(expected_value.v, actual_value.v, 1),
                "]", FALSE, FALSE, 0)
    ELSE IF expected_value.t = "obj" /\ actual_value.t = "obj"
    THEN nested(<<Punct("{")>>, json_object_diff(expected_value.v, actual_value.v, 1),
                "}", FALSE, FALSE, 0)
    ELSE {Lines([n \in 1..Len(to_string_pretty(expected_value)) |->
                    JsonDiffLine_deleted(0, to_string_pretty(expected_value)[n])]
                \o [n \in 1..Len(to_string_pretty(actual_value)) |->
                    JsonDiffLine_added(0, to_string_pretty(actual_value)[n])])}

\* ------------------------------------------------------- the JSON differ
\* serde_json::from_slice on the tokens from position i on: the value read
\* and the position after it, or an error.
ParseError == [ok |-> FALSE, value |-> Number(0), next |-> 0]
Parsed(value, next) == [ok |-> TRUE, value |-> value, next |-> next]
IsPunct(tokens, i, c) == i <= Len(tokens) /\ tokens[i] = Punct(c)

\* Map::insert: a key the map already holds keeps its place and takes the
\* new value.
Map_insert(members, k, v) ==
    IF \E j \in 1..Len(members) : members[j].k = k
    THEN [j \in 1..Len(members) |-> IF members[j].k = k THEN Member(k, v) ELSE members[j]]
    ELSE Append(members, Member(k, v))

RECURSIVE parse_value(_, _)
RECURSIVE parse_items(_, _, _)
RECURSIVE parse_members(_, _, _)
parse_items(tokens, i, items) ==
    LET item == parse_value(tokens, i)
    IN  IF ~item.ok THEN ParseError
        ELSE IF IsPunct(tokens, item.next, ",")
        THEN parse_items(tokens, item.next + 1, Append(items, item.value))
        ELSE IF IsPunct(tokens, item.next, "]")
        THEN Parsed(Array(Append(items, item.value)), item.next + 1)
        ELSE ParseError

parse_members(tokens, i, members) ==
    IF i > Len(tokens) \/ tokens[i][1] # "key" THEN ParseError
    ELSE LET member == parse_value(tokens, i + 1)
             inserted == Map_insert(members, tokens[i][2], member.value)
         IN  IF ~member.ok THEN ParseError
             ELSE IF IsPunct(tokens, member.next, ",")
             THEN parse_members(tokens, member.next + 1, inserted)
             ELSE IF IsPunct(tokens, member.next, "}")
             THEN Parsed(Object(inserted), member.next + 1)
             ELSE ParseError

parse_value(tokens, i) ==
    IF i > Len(tokens) THEN ParseError
    ELSE IF tokens[i][1] = "num" THEN Parsed(Number(tokens[i][2]), i + 1)
    ELSE IF IsPunct(tokens, i, "[")
    THEN (IF IsPunct(tokens, i + 1, "]") THEN Parsed(Array(<<>>), i + 2)
          ELSE parse_items(tokens, i + 1, <<>>))
    ELSE IF IsPunct(tokens, i, "{")
    THEN (IF IsPunct(tokens, i + 1, "}") THEN Parsed(Object(<<>>), i + 2)
          ELSE parse_members(tokens, i + 1, <<>>))
    ELSE ParseError

\* serde_json::from_slice: the whole content must be one value.
from_slice(content) ==
    LET read == parse_value(content, 1)
    IN  IF read.ok /\ read.next = Len(content) + 1 THEN read ELSE ParseError

\* try_into_json.
try_into_json(content) ==
    IF from_slice(content).ok
    THEN [some |-> TRUE, text |-> to_string_pretty(from_slice(content).value)]
    ELSE [some |-> FALSE, text |-> <<>>]

\* mime::Mime: type_(), subtype() and the suffix after '+'.
Mime(type_, subtype, suffix) == [type_ |-> type_, subtype |-> subtype, suffix |-> suffix]
APPLICATION_JSON == Mime("application", <<"json">>, "")
TEXT_JSON == Mime("text", <<"json">>, "")
TEXT_PLAIN == Mime("text", <<"plain">>, "")
APPLICATION_X_JSON == Mime("application", <<"x">>, "json")

\* str::strip_suffix("+json") on the subtype.
strip_suffix_json(subtype) ==
    IF subtype # <<>> /\ subtype[Len(subtype)] = "+json"
    THEN [some |-> TRUE, rest |-> SubSeq(subtype, 1, Len(subtype) - 1)]
    ELSE [some |-> FALSE, rest |-> <<>>]

is_json_mime(kind) ==
    IF kind = APPLICATION_JSON THEN TRUE
    ELSE IF kind.type_ = "application" /\ strip_suffix_json(kind.subtype).some
    THEN strip_suffix_json(kind.subtype).rest # <<>>
    ELSE kind.type_ = "text" /\ kind.subtype = <<"json">> /\ kind.suffix = ""

\* FileLeaf: the detected MIME and the content.
FileLeaf(kind, content) == [kind |-> kind, content |-> content]

\* The answer to a file that has a JSON MIME and does not parse.
on_parse_failure_error == "Err"

on_parse_failure == "Unsupported"

\* A body that is Equal as soon as one line is Unchanged.
JsonDiffBody_equal_any(lines) == \E n \in 1..Len(lines) : lines[n].tag = "Unchanged"

\* JsonDiffBody of the computed lines: Equal when every line is Unchanged.
JsonDiffBody_equal(lines) == \A n \in 1..Len(lines) : lines[n].tag = "Unchanged"

\* JsonDiffCalculator::diff: the answers it can give and, with Ok, the diff.
JsonDiffCalculator_diff(ignore_object_key_order, expected_file, actual_file) ==
    LET e == from_slice(expected_file.content)
        a == from_slice(actual_file.content)
        expected_value == IF ignore_object_key_order THEN sort_all_objects(e.value) ELSE e.value
        actual_value == IF ignore_object_key_order THEN sort_all_objects(a.value) ELSE a.value
        answer(kind, out) == [answer |-> kind, out |-> out,
                              equal |-> kind = "Ok" /\ JsonDiffBody_equal(out.lines)]
    IN  IF ~is_json_mime(expected_file.kind) \/ ~is_json_mime(actual_file.kind)
        THEN {answer("Unsupported", Lines(<<>>))}
        ELSE IF ~e.ok \/ ~a.ok THEN {answer(on_parse_failure, Lines(<<>>))}
        ELSE {answer(IF out.panic THEN "Panic" ELSE "Ok", out) :
                out \in json_diff(expected_value, actual_value)}

\* JsonDiffReporter::report_added / report_deleted.
JsonDiffReporter_report_single(data) ==
    IF ~is_json_mime(data.kind) THEN "Unsupported"
    ELSE IF ~try_into_json(data.content).some THEN on_parse_failure
    ELSE "Ok"

\* The state of the engine while one differ is called on its own.
Idle ==
    /\ expected = EmptyMap
    /\ actual = EmptyMap
    /\ diff = StandardChain
    /\ Fresh
    /\ round = 1
    /\ plan = "once"
    /\ first = {}

engine == <<expected, actual, diff, pc, stack, name, thrown, tasks, errors, entries, counts,
            events, output, result, panicked, failed, round, plan, first>>

\* The loop of run_diff / run_added / run_deleted after the differ at idx
\* has answered: Ok ends it, Unsupported moves to the next differ, an Err
\* leaves through `?`; a panic unwinds the task.
RunLoop ==
    /\ call.differ # "none"
    /\ call.st = "answered"
    /\ call' = IF call.answer = "Ok" THEN [call EXCEPT !.st = "done"]
               ELSE IF call.answer = "Panic" THEN [call EXCEPT !.st = "panicked"]
               ELSE IF next_differ(call.answer) /\ call.idx < Len(diff)
               THEN [call EXCEPT !.st = "next", !.idx = @ + 1]
               ELSE [call EXCEPT !.st = "failed"]
    /\ UNCHANGED engine

\* The values that differ from value in the order of object keys only, and
\* value itself.
RECURSIVE Reorderings(_)
Reorderings(value) ==
    LET each == [i \in 1..Len(value.v) |->
                    Reorderings(IF value.t = "obj" THEN value.v[i].v ELSE value.v[i])]
        choices == {f \in [1..Len(value.v) -> UNION {each[i] : i \in 1..Len(value.v)}] :
                        \A i \in 1..Len(value.v) : f[i] \in each[i]}
        orders == {p \in [1..Len(value.v) -> 1..Len(value.v)] :
                        \A i, j \in 1..Len(value.v) : p[i] = p[j] => i = j}
    IN  CASE value.t = "num" -> {value}
          [] value.t = "arr" -> {Array(f) : f \in choices}
          [] value.t = "obj" ->
                {Object([i \in 1..Len(value.v) |-> Member(value.v[p[i]].k, f[p[i]])]) :
                    f \in choices, p \in orders}

ReorderPairs ==
    {pr \in UNION {{<<v, w>> : w \in Reorderings(v)} : v \in JsonUpTo(MaxReorderNodes)} :
        pr[1] # pr[2]}

\* The files the JSON differ is called on: every MIME with content that
\* parses and content that does not, and JSON files of every pair of values.
Mimes == {APPLICATION_JSON, TEXT_JSON, TEXT_PLAIN, APPLICATION_X_JSON}
GateContents ==
    {to_string(Number(1)),
     <<Punct("{")>>,
     <<Punct("["), NumberToken(1), Punct(","), Punct("]")>>}
GateFiles == {FileLeaf(kind, content) : kind \in Mimes, content \in GateContents}
JsonFile(value) == FileLeaf(APPLICATION_JSON, to_string(value))
JsonFilePairs ==
    (GateFiles \X GateFiles)
    \cup {<<JsonFile(v), JsonFile(w)>> : v \in JsonValues, w \in JsonValues}
    \cup {<<JsonFile(pr[1]), JsonFile(pr[2])>> : pr \in ReorderPairs}

JsonCall(kind, ignore_object_key_order, expected_file, actual_file) ==
    [differ |-> "json", kind |-> kind, ignore_object_key_order |-> ignore_object_key_order,
     expected |-> expected_file, actual |-> actual_file, st |-> "start", idx |-> 1,
     answer |-> "none", out |-> Lines(<<>>), equal |-> FALSE, recorded |-> "none"]

InitJson ==
    /\ Idle
    /\ \/ \E pr \in JsonFilePairs, ignore_object_key_order \in BOOLEAN :
            call = JsonCall("diff", ignore_object_key_order, pr[1], pr[2])
       \/ \E data \in GateFiles, kind \in {"added", "deleted"} :
            call = JsonCall(kind, FALSE, data, data)

\* DiffAndReport::diff, first half: JsonDiffCalculator::diff.
JsonDiff ==
    /\ call.differ = "json"
    /\ call.kind = "diff"
    /\ call.st = "start"
    /\ \E r \in JsonDiffCalculator_diff(call.ignore_object_key_order, call.expected, call.actual) :
        call' = [call EXCEPT !.st = IF r.answer = "Ok" THEN "calculated" ELSE "answered",
                             !.answer = r.answer, !.out = r.out, !.equal = r.equal]
    /\ UNCHANGED engine

\* DiffAndReport::diff, second half: report_unchanged when the diff is
\* equal, report_modified otherwise.
JsonReport ==
    /\ call.differ = "json"
    /\ call.st = "calculated"
    /\ call' = [call EXCEPT !.st = "answered",
                            !.recorded = IF call.equal THEN "Unchanged" ELSE "Modified"]
    /\ UNCHANGED engine

\* JsonDiffReporter::report_added / report_deleted.
JsonSingle ==
    /\ call.differ = "json"
    /\ call.kind \in {"added", "deleted"}
    /\ call.st = "start"
    /\ LET answer == JsonDiffReporter_report_single(call.expected)
       IN  call' = [call EXCEPT !.st = "answered", !.answer = answer,
                                !.recorded = IF answer # "Ok" THEN "none"
                                             ELSE IF call.kind = "added" THEN "Added"
                                             ELSE "Deleted"]
    /\ UNCHANGED engine

NextJson ==
    \/ JsonDiff
    \/ JsonReport
    \/ JsonSingle
    \/ RunLoop

SpecJson == InitJson /\ [][NextJson]_vars

\* ------------------------------------------- the array replace step alone
\* ArrayDiffHook::replace called on two runs of items, the runs being the
\* whole arrays: the queue is built, popped pair by pair, and the lines are
\* emitted.
MaxRun == 3

RunItems ==
    {Number(1), Array(<<>>), Array(<<Number(1)>>), Array(<<Number(2)>>),
     Object(<<>>), Object(<<Member("a", Number(1))>>)}

Runs == UNION {[1..n -> RunItems] : n \in 1..MaxRun}

NoMaps(old_len, new_len) ==
    [expected_to_actual |-> [i \in 1..old_len |-> 0],
     actual_to_expected |-> [j \in 1..new_len |-> 0]]

ReplaceCall(expected_items, actual_items) ==
    [differ |-> "replace", expected |-> expected_items, actual |-> actual_items,
     st |-> "start", q |-> {}, maps |-> NoMaps(Len(expected_items), Len(actual_items)),
     turns |-> <<>>, out |-> {}]

InitReplace ==
    /\ Idle
    /\ \E expected_items \in Runs, actual_items \in Runs :
        call = ReplaceCall(expected_items, actual_items)

\* The two for loops that push the candidates.
ReplaceQueue ==
    /\ call.differ = "replace"
    /\ call.st = "start"
    /\ call' = [call EXCEPT !.st = "pop",
                            !.q = replace_queue(call.expected, call.actual,
                                                1, Len(call.expected), 1, Len(call.actual))]
    /\ UNCHANGED engine

\* One turn of the while-let loop.
ReplacePop ==
    /\ call.differ = "replace"
    /\ call.st = "pop"
    /\ call.q # {}
    /\ LET t == replace_turn(call.q, call.maps)
       IN  call' = [call EXCEPT !.q = t.q, !.maps = t.maps,
                                !.turns = Append(@, [c |-> t.c, verdict |-> t.verdict,
                                                     before |-> t.before])]
    /\ UNCHANGED engine

\* The last loop: deletes, inserts and the nested diffs of the pairs.
ReplaceEmit ==
    /\ call.differ = "replace"
    /\ call.st = "pop"
    /\ call.q = {}
    /\ call' = [call EXCEPT !.st = "done",
                            !.out = replace_emit(call.expected, call.actual, 1, 1,
                                                 call.maps, 1, 1, 1)]
    /\ UNCHANGED engine

NextReplace ==
    \/ ReplaceQueue
    \/ ReplacePop
    \/ ReplaceEmit

SpecReplace == InitReplace /\ [][NextReplace]_vars

\* ------------------------------------------------------- the text differ
\* Contents are sequences of bytes: a letter, a line feed, another control
\* character, and a byte that no UTF-8 text holds.
MaxTextLen == 2
TextBytes == {"a", "LF", "ESC", "0xFF"}
TextContents == UNION {[1..n -> TextBytes] : n \in 0..MaxTextLen}

\* str::from_utf8: the characters, or an error.
from_utf8(body) ==
    IF \E i \in 1..Len(body) : body[i] = "0xFF"
    THEN [ok |-> FALSE, chars |-> <<>>]
    ELSE [ok |-> TRUE, chars |-> body]

\* char::is_control.
is_control(ch) == ch \in {"LF", "ESC"}

\* matches!(ch, '\n' | '\r' | '\t').
is_whitespace_control(ch) == ch = "LF"

APPLICATION_OCTET_STREAM == Mime("application", <<"octet-stream">>, "")
IMAGE_PNG == Mime("image", <<"png">>, "")
APPLICATION_X_SH == Mime("application", <<"x-sh">>, "")

is_text_mime(kind) ==
    \/ kind.type_ = "text"
    \/ /\ kind.type_ = "application"
       /\ kind.suffix = ""
       /\ kind.subtype \in {<<"json">>, <<"xml">>, <<"javascript">>, <<"x-javascript">>,
                            <<"x-www-form-urlencoded">>, <<"yaml">>, <<"x-yaml">>, <<"toml">>}

is_binary_mime(kind) ==
    \/ kind = APPLICATION_OCTET_STREAM
    \/ kind.type_ \in {"image", "audio", "video"}
    \/ /\ kind.type_ = "application"
       /\ kind.suffix = ""
       /\ kind.subtype \in {<<"pdf">>, <<"zip">>, <<"gzip">>, <<"x-tar">>, <<"x-7z-compressed">>,
                            <<"x-rar-compressed">>, <<"x-bzip2">>}

is_text_file(kind, body) ==
    IF is_text_mime(kind) THEN TRUE
    ELSE IF is_binary_mime(kind) THEN FALSE
    ELSE IF ~from_utf8(body).ok THEN FALSE
    ELSE \A i \in 1..Len(from_utf8(body).chars) :
            LET ch == from_utf8(body).chars[i]
            IN  ~is_control(ch) \/ is_whitespace_control(ch)

\* The test of TextDiffCalculator::diff on the characters of one side.
all_forbidden_control(chars) ==
    \A i \in 1..Len(chars) : is_control(chars[i]) /\ ~is_whitespace_control(chars[i])

\* TextDiffCalculator::diff: the answer and, with Ok, whether the diff is equal.
TextDiffCalculator_diff(expected_file, actual_file) ==
    LET ok == [answer |-> "Ok", equal |-> expected_file.content = actual_file.content]
        unsupported == [answer |-> "Unsupported", equal |-> FALSE]
    IN  IF is_text_mime(expected_file.kind) /\ is_text_mime(actual_file.kind) THEN ok
        ELSE IF is_binary_mime(expected_file.kind) \/ is_binary_mime(actual_file.kind)
        THEN unsupported
        ELSE IF ~from_utf8(expected_file.content).ok THEN unsupported
        ELSE IF ~from_utf8(actual_file.content).ok THEN unsupported
        ELSE IF all_forbidden_control(from_utf8(expected_file.content).chars) THEN unsupported
        ELSE IF all_forbidden_control(from_utf8(actual_file.content).chars) THEN unsupported
        ELSE ok

TextMimes == {TEXT_PLAIN, APPLICATION_JSON, APPLICATION_OCTET_STREAM, IMAGE_PNG, APPLICATION_X_SH}
TextFiles == {FileLeaf(kind, content) : kind \in TextMimes, content \in TextContents}

\* TextDiffReporter::report_added / report_deleted of the summary, the JSON
\* and the HTML sink; the writes of the HTML sink succeed.
TextDiffReporter_report_single(reporter, data) ==
    IF ~is_text_file(data.kind, data.content) THEN "Unsupported"
    ELSE IF reporter = "html" /\ ~from_utf8(data.content).ok THEN "Panic"
    ELSE "Ok"

TextReporters == {"summary", "json", "html"}

TextCall(kind, reporter, expected_file, actual_file) ==
    [differ |-> "text", kind |-> kind, reporter |-> reporter,
     expected |-> expected_file, actual |-> actual_file,
     st |-> "start", idx |-> 2, answer |-> "none", equal |-> FALSE, recorded |-> "none"]

InitText ==
    /\ Idle
    /\ \/ \E expected_file \in TextFiles, actual_file \in TextFiles :
            call = TextCall("diff", "json", expected_file, actual_file)
       \/ \E data \in TextFiles, kind \in {"added", "deleted"}, reporter \in TextReporters :
            call = TextCall(kind, reporter, data, data)

\* DiffAndReport::diff with the text differ: TextDiffCalculator::diff, then
\* report_unchanged or report_modified.
TextDiff ==
    /\ call.differ = "text"
    /\ call.kind = "diff"
    /\ call.st = "start"
    /\ LET r == TextDiffCalculator_diff(call.expected, call.actual)
       IN  call' = [call EXCEPT !.st = "answered", !.answer = r.answer, !.equal = r.equal,
                                !.recorded = IF r.answer # "Ok" THEN "none"
                                             ELSE IF r.equal THEN "Unchanged" ELSE "Modified"]
    /\ UNCHANGED engine

\* TextDiffReporter::report_added / report_deleted.
TextSingle ==
    /\ call.differ = "text"
    /\ call.kind \in {"added", "deleted"}
    /\ call.st = "start"
    /\ LET answer == TextDiffReporter_report_single(call.reporter, call.expected)
       IN  call' = [call EXCEPT !.st = "answered", !.answer = answer,
                                !.recorded = IF answer # "Ok" THEN "none"
                                             ELSE IF call.kind = "added" THEN "Added"
                                             ELSE "Deleted"]
    /\ UNCHANGED engine

NextText ==
    \/ TextDiff
    \/ TextSingle
    \/ RunLoop

SpecText == InitText /\ [][NextText]_vars

\* ------------------------------------------------------ the image differ
\* An RgbaImage: its dimensions and the pixel at every (x, y), x and y
\* counted from 0. Pixels are colours 0..MaxPixel, their distance the
\* difference of the numbers.
MaxImageSide == 3
MaxFreeSide == 2
MaxPixel == 1
Pixels == 0..MaxPixel
Coords(width, height) == (0..(width - 1)) \X (0..(height - 1))
RgbaImage(width, height, data) == [width |-> width, height |-> height, data |-> data]

\* Every image of sides up to MaxFreeSide, and the images of one colour of
\* sides up to MaxImageSide.
Images ==
    UNION {{RgbaImage(w, h, data) : data \in [Coords(w, h) -> Pixels]} :
            w \in 1..MaxFreeSide, h \in 1..MaxFreeSide}
    \cup {RgbaImage(w, h, [c \in Coords(w, h) |-> px]) :
            w \in 1..MaxImageSide, h \in 1..MaxImageSide, px \in Pixels}

\* ImageDiffCalculator::pixel_diff.
pixel_diff(max_distance, expected_pixel, actual_pixel) ==
    abs_diff(expected_pixel, actual_pixel) > max_distance

\* The pixels outside the overlap left uncounted.
outside_overlap_uncounted(min_width, min_height, max_width, max_height) == 0

\* The two loops of compare over the pixels outside the overlap: the rest of
\* the rows of the overlap, then the rows below it.
outside_overlap(min_width, min_height, max_width, max_height) ==
    min_height * (max_width - min_width) + (max_height - min_height) * max_width

\* ImageDiffCalculator::compare: the ImageDiffStat, with diff_ratio kept as
\* the fraction diff_pixels / total_pixels, and the diff image.
compare(max_distance, expected_image, actual_image) ==
    LET max_width == Max({expected_image.width, actual_image.width})
        max_height == Max({expected_image.height, actual_image.height})
        min_width == Min({expected_image.width, actual_image.width})
        min_height == Min({expected_image.height, actual_image.height})
        differs(c) == pixel_diff(max_distance, expected_image.data[c], actual_image.data[c])
        diff_image ==
            RgbaImage(max_width, max_height,
                [c \in Coords(max_width, max_height) |->
                    IF c[1] < min_width /\ c[2] < min_height
                    THEN (IF differs(c) THEN "DIFF_PIXEL_COLOR" ELSE "SAME_PIXEL_COLOR")
                    ELSE "DIFF_PIXEL_COLOR"])
    IN  [diff_pixels |-> Cardinality({c \in Coords(min_width, min_height) : differs(c)})
                         + outside_overlap(min_width, min_height, max_width, max_height),
         total_pixels |-> max_width * max_height,
         diff_image |-> diff_image]

\* diff_stat.diff_ratio <= self.max_diff_ratio, the ratio being 0.0 for an
\* image without pixels; max_diff_ratio is the fraction ratio[1] / ratio[2].
within_ratio(stat, ratio) ==
    IF stat.total_pixels = 0 THEN TRUE
    ELSE stat.diff_pixels * ratio[2] <= ratio[1] * stat.total_pixels

IMAGE_BMP == Mime("image", <<"bmp">>, "")
IMAGE_SVG == Mime("image", <<"svg">>, "xml")

image_format(kind) ==
    IF kind.type_ # "image" THEN [some |-> FALSE, format |-> "none"]
    ELSE IF kind.subtype \in {<<"png">>, <<"bmp">>, <<"gif">>, <<"jpeg">>, <<"webp">>, <<"avif">>}
    THEN [some |-> TRUE, format |-> kind.subtype[1]]
    ELSE [some |-> FALSE, format |-> "none"]

\* The bytes of a file: an image encoded in a format, or bytes no decoder
\* accepts.
Encoded(format, image) == [enc |-> format, image |-> image]
Corrupt == Encoded("corrupt", RgbaImage(0, 0, EmptyMap))

\* image::load_from_memory_with_format: the decoder of the format reads
\* bytes of that format only.
load_from_memory_with_format(content, format) ==
    IF content.enc = format THEN [ok |-> TRUE, image |-> content.image]
    ELSE [ok |-> FALSE, image |-> RgbaImage(0, 0, EmptyMap)]

NoStat == [diff_pixels |-> 0, total_pixels |-> 0, diff_image |-> RgbaImage(0, 0, EmptyMap)]

\* ImageDiffCalculator::diff.
ImageDiffCalculator_diff(max_distance, max_diff_ratio, expected_file, actual_file) ==
    LET expected_format == image_format(expected_file.kind)
        actual_format == image_format(actual_file.kind)
        expected_image == load_from_memory_with_format(expected_file.content, expected_format.format)
        actual_image == load_from_memory_with_format(actual_file.content, actual_format.format)
        stat == compare(max_distance, expected_image.image, actual_image.image)
        unsupported == [answer |-> "Unsupported", equal |-> FALSE, stat |-> NoStat]
    IN  IF ~expected_format.some \/ ~actual_format.some THEN unsupported
        ELSE IF ~expected_image.ok THEN unsupported
        ELSE IF ~actual_image.ok THEN unsupported
        ELSE [answer |-> "Ok", equal |-> within_ratio(stat, max_diff_ratio), stat |-> stat]

\* ImageDiffReporter::report_added / report_deleted of the summary, the JSON
\* and the HTML sink.
ImageDiffReporter_report_single(reporter, data) ==
    LET format == image_format(data.kind)
        decoded == load_from_memory_with_format(data.content, format.format)
    IN  IF reporter = "summary"
        THEN (IF ~format.some \/ ~decoded.ok THEN "Unsupported" ELSE "Ok")
        ELSE IF ~format.some THEN "Unsupported"
        ELSE IF ~decoded.ok THEN "Err"
        ELSE "Ok"

Reporters == {"summary", "json", "html"}
ImageMimes == {IMAGE_PNG, IMAGE_BMP, IMAGE_SVG, TEXT_PLAIN}
OnePixel == RgbaImage(1, 1, [c \in Coords(1, 1) |-> 0])
ImageGateFiles ==
    {FileLeaf(kind, content) :
        kind \in ImageMimes, content \in {Encoded("png", OnePixel), Encoded("bmp", OnePixel), Corrupt}}
ImageFilePairs ==
    (ImageGateFiles \X ImageGateFiles)
    \cup {<<FileLeaf(IMAGE_PNG, Encoded("png", e)), FileLeaf(IMAGE_PNG, Encoded("png", a))>> :
            e \in Images, a \in Images}
Ratios == {<<0, 1>>, <<1, 2>>}

ImageCall(kind, reporter, max_distance, max_diff_ratio, expected_file, actual_file) ==
    [differ |-> "image", kind |-> kind, reporter |-> reporter, max_distance |-> max_distance,
     max_diff_ratio |-> max_diff_ratio, expected |-> expected_file, actual |-> actual_file,
     st |-> "start", idx |-> 4, answer |-> "none", equal |-> FALSE, stat |-> NoStat,
     recorded |-> "none"]

InitImage ==
    /\ Idle
    /\ \/ \E pr \in ImageFilePairs, max_distance \in 0..MaxPixel, max_diff_ratio \in Ratios :
            call = ImageCall("diff", "json", max_distance, max_diff_ratio, pr[1], pr[2])
       \/ \E data \in ImageGateFiles, kind \in {"added", "deleted"}, reporter \in Reporters :
            call = ImageCall(kind, reporter, 0, <<0, 1>>, data, data)

\* DiffAndReport::diff with the image differ: ImageDiffCalculator::diff, then
\* report_unchanged or report_modified.
ImageDiff ==
    /\ call.differ = "image"
    /\ call.kind = "diff"
    /\ call.st = "start"
    /\ LET r == ImageDiffCalculator_diff(call.max_distance, call.max_diff_ratio,
                                         call.expected, call.actual)
       IN  call' = [call EXCEPT !.st = "answered", !.answer = r.answer, !.equal = r.equal,
                                !.stat = r.stat,
                                !.recorded = IF r.answer # "Ok" THEN "none"
                                             ELSE IF r.equal THEN "Unchanged" ELSE "Modified"]
    /\ UNCHANGED engine

\* ImageDiffReporter::report_added / report_deleted.
ImageSingle ==
    /\ call.differ = "image"
    /\ call.kind \in {"added", "deleted"}
    /\ call.st = "start"
    /\ LET answer == ImageDiffReporter_report_single(call.reporter, call.expected)
       IN  call' = [call EXCEPT !.st = "answered", !.answer = answer,
                                !.recorded = IF answer # "Ok" THEN "none"
                                             ELSE IF call.kind = "added" THEN "Added"
                                             ELSE "Deleted"]
    /\ UNCHANGED engine

NextImage ==
    \/ ImageDiff
    \/ ImageSingle
    \/ RunLoop

SpecImage == InitImage /\ [][NextImage]_vars

\* ------------------------------------------------------ the audio differ
\* The bytes of an audio file: a header with the sample rate and the number
\* of channels, then frames holding one sample per channel; or bytes no
\* decoder accepts. Samples and the measured numbers are levels 0..MaxLevel.
MaxFrames == 1
MaxLevel == 1
Levels == 0..MaxLevel
SampleRates == {44100, 48000}
ChannelCounts == {1, 2}
AudioBytes(sample_rate, channels, frames) ==
    [enc |-> "pcm", sample_rate |-> sample_rate, channels |-> channels, frames |-> frames]
AudioCorrupt == [enc |-> "corrupt", sample_rate |-> 0, channels |-> 0, frames |-> <<>>]
AudioContents ==
    {AudioCorrupt}
    \cup UNION {{AudioBytes(sample_rate, channels, frames) :
                    frames \in UNION {[1..n -> [1..channels -> Levels]] : n \in 0..MaxFrames}} :
                sample_rate \in SampleRates, channels \in ChannelCounts}

\* SpectrogramAnalyzer::decode_audio: the sample rate, the channel count and
\* one plane of samples per channel; the MIME is a hint only.
decode_audio(kind, content) ==
    IF content.enc # "pcm"
    THEN [ok |-> FALSE, sample_rate |-> 0, channels |-> 0, samples |-> <<>>]
    ELSE [ok |-> TRUE, sample_rate |-> content.sample_rate, channels |-> content.channels,
          samples |-> [ch \in 1..content.channels |->
                        [i \in 1..Len(content.frames) |-> content.frames[i][ch]]]]

is_audio_kind(kind) == kind.type_ = "audio" \/ kind.type_ = "video"

\* A comparison of the sample rates alone.
same_format_rate_only(expected_decoded, actual_decoded) ==
    expected_decoded.sample_rate = actual_decoded.sample_rate

\* (expected.sample_rate, expected.channels) == (actual.sample_rate, actual.channels).
same_format(expected_decoded, actual_decoded) ==
    <<expected_decoded.sample_rate, expected_decoded.channels>>
        = <<actual_decoded.sample_rate, actual_decoded.channels>>

\* AudioDiffStat of two signals of one format: the shift of align_samples,
\* the loudness difference and the spectrogram difference rate. The signal
\* processing is not modelled: every level is a possible result.
AudioDiffStats ==
    [spectrogram_diff_rate : Levels, shift_samples : {-1, 0, 1}, lufs_diff_db : Levels]

NoDetail == [some |-> FALSE,
             stat |-> [spectrogram_diff_rate |-> 0, shift_samples |-> 0, lufs_diff_db |-> 0]]
Detail(stat) == [some |-> TRUE, stat |-> stat]

\* AudioDiffCalculator::diff: the answers and, with Ok, the AudioDiffStatus
\* with its detail.
AudioDiffCalculator_diff(lufs_tolerance_db, spectrogram_diff_rate_tolerance, expected_file, actual_file) ==
    LET expected_decoded == decode_audio(expected_file.kind, expected_file.content)
        actual_decoded == decode_audio(actual_file.kind, actual_file.content)
        unsupported == [answer |-> "Unsupported", status |-> "none", detail |-> NoDetail]
    IN  IF ~is_audio_kind(expected_file.kind) \/ ~is_audio_kind(actual_file.kind)
        THEN {unsupported}
        ELSE IF ~expected_decoded.ok THEN {unsupported}
        ELSE IF ~actual_decoded.ok THEN {unsupported}
        ELSE IF ~same_format(expected_decoded, actual_decoded)
        THEN {[answer |-> "Ok", status |-> "Incomparable", detail |-> NoDetail]}
        ELSE {[answer |-> "Ok",
               status |-> IF /\ stat.lufs_diff_db <= lufs_tolerance_db
                             /\ stat.spectrogram_diff_rate <= spectrogram_diff_rate_tolerance
                          THEN "Equal" ELSE "Different",
               detail |-> Detail(stat)] : stat \in AudioDiffStats}

\* AudioDiff::equal.
AudioDiff_equal(status) == status = "Equal"

\* AudioDiff::diff_detail.
diff_detail(status, detail) == IF status \in {"Equal", "Different"} THEN detail ELSE NoDetail

\* The ModifiedReport / UnchangedReport of the JSON sink: the status and the
\* three numbers, each present only with a detail.
AudioReport(status, detail) ==
    [status |-> status, numbers |-> diff_detail(status, detail).some,
     stat |-> diff_detail(status, detail).stat]

AUDIO_WAV == Mime("audio", <<"wav">>, "")
VIDEO_MP4 == Mime("video", <<"mp4">>, "")
AudioMimes == {AUDIO_WAV, VIDEO_MP4, TEXT_PLAIN}
AudioFiles == {FileLeaf(kind, content) : kind \in AudioMimes, content \in AudioContents}

AudioCall(lufs_tolerance_db, spectrogram_diff_rate_tolerance, expected_file, actual_file) ==
    [differ |-> "audio", kind |-> "diff", lufs_tolerance_db |-> lufs_tolerance_db,
     spectrogram_diff_rate_tolerance |-> spectrogram_diff_rate_tolerance,
     expected |-> expected_file, actual |-> actual_file, st |-> "start", idx |-> 3,
     answer |-> "none", status |-> "none", detail |-> NoDetail, equal |-> FALSE,
     recorded |-> "none", report |-> AudioReport("none", NoDetail)]

InitAudio ==
    /\ Idle
    /\ \E expected_file \in AudioFiles, actual_file \in AudioFiles,
          lufs_tolerance_db \in Levels, spectrogram_diff_rate_tolerance \in Levels :
            call = AudioCall(lufs_tolerance_db, spectrogram_diff_rate_tolerance,
                             expected_file, actual_file)

\* DiffAndReport::diff, first half: AudioDiffCalculator::diff.
AudioDiff ==
    /\ call.differ = "audio"
    /\ call.st = "start"
    /\ \E r \in AudioDiffCalculator_diff(call.lufs_tolerance_db,
                                        call.spectrogram_diff_rate_tolerance,
                                        call.expected, call.actual) :
        call' = [call EXCEPT !.st = IF r.answer = "Ok" THEN "calculated" ELSE "answered",
                             !.answer = r.answer, !.status = r.status, !.detail = r.detail,
                             !.equal = AudioDiff_equal(r.status)]
    /\ UNCHANGED engine

\* DiffAndReport::diff, second half: report_unchanged when the diff is
\* equal, report_modified otherwise, with the report of the JSON sink.
AudioReportStep ==
    /\ call.differ = "audio"
    /\ call.st = "calculated"
    /\ call' = [call EXCEPT !.st = "answered",
                            !.recorded = IF call.equal THEN "Unchanged" ELSE "Modified",
                            !.report = IF call.equal THEN @
                                       ELSE AudioReport(call.status, call.detail)]
    /\ UNCHANGED engine

NextAudio ==
    \/ AudioDiff
    \/ AudioReportStep
    \/ RunLoop

SpecAudio == InitAudio /\ [][NextAudio]_vars

\* ------------------------------------------------ the alignment search
\* align_samples on one channel per side, the channels known by their
\* lengths: the scores are sums of floats the lengths do not determine, so
\* the best shift is any shift of the search.
MaxSamples == 3
MaxShift == 4

saturating_sub(x, y) == IF x < y THEN 0 ELSE x - y

Range(start, end) == [start |-> start, end |-> end]

\* overlap_range: the two index ranges a shift leaves, (expected, actual).
overlap_range(expected_len, actual_len, shift) ==
    IF shift >= 0
    THEN LET len == Min({expected_len, saturating_sub(actual_len, shift)})
         IN  <<Range(0, len), Range(shift, shift + len)>>
    ELSE LET len == Min({actual_len, saturating_sub(expected_len, -shift)})
         IN  <<Range(-shift, -shift + len), Range(0, len)>>

\* &slice[start..end]: out of range when the end lies past the slice or
\* before the start.
slice_index(len, range) == range.start <= range.end /\ range.end <= len

\* overlap_slices: the same two ranges, taken as slices of the channels.
overlap_slices(expected_len, actual_len, shift) ==
    LET ranges == overlap_range(expected_len, actual_len, shift)
    IN  [panic |-> ~(slice_index(expected_len, ranges[1]) /\ slice_index(actual_len, ranges[2])),
         expected_slice |-> ranges[1], actual_slice |-> ranges[2]]

AlignCall(expected_len, actual_len, max_shift_samples) ==
    [differ |-> "align", expected |-> expected_len, actual |-> actual_len,
     max_shift_samples |-> max_shift_samples, st |-> "search", shift |-> -max_shift_samples,
     visited |-> {}, overlap |-> <<Range(0, 0), Range(0, 0)>>, best_shift |-> 0]

InitAlign ==
    /\ Idle
    /\ \E expected_len \in 0..MaxSamples, actual_len \in 0..MaxSamples :
        \E max_shift_samples \in 0..MaxShift :
            call = AlignCall(expected_len, actual_len, max_shift_samples)

\* One candidate of (-max_shift_samples..=max_shift_samples).map(..): the
\* overlap of the channels is sliced and scored.
AlignVisit ==
    /\ call.differ = "align"
    /\ call.st = "search"
    /\ call.shift <= call.max_shift_samples
    /\ LET r == overlap_slices(call.expected, call.actual, call.shift)
       IN  call' = IF r.panic
                   THEN [call EXCEPT !.st = "panicked",
                                     !.overlap = <<r.expected_slice, r.actual_slice>>]
                   ELSE [call EXCEPT !.shift = @ + 1, !.visited = @ \cup {call.shift},
                                     !.overlap = <<r.expected_slice, r.actual_slice>>]
    /\ UNCHANGED engine

\* min_by over the scores, then the drain of the samples the best shift
\* discards on each side.
AlignDrain ==
    /\ call.differ = "align"
    /\ call.st = "search"
    /\ call.shift > call.max_shift_samples
    /\ \E best_shift \in call.visited :
        LET ranges == overlap_range(call.expected, call.actual, best_shift)
        IN  call' = [call EXCEPT !.st = "done", !.best_shift = best_shift,
                                 !.overlap = ranges,
                                 !.expected = @ - Min({ranges[1].start, @}),
                                 !.actual = @ - Min({ranges[2].start, @})]
    /\ UNCHANGED engine

NextAlign ==
    \/ AlignVisit
    \/ AlignDrain

SpecAlign == InitAlign /\ [][NextAlign]_vars

\* ================================================================ properties
\* join_name of the sink: the segments of a path joined by '/'.
RECURSIVE join_name(_)
join_name(p) ==
    IF p = <<>> THEN <<>>
    ELSE IF Len(p) = 1 THEN p[1]
    ELSE (join_name(SubSeq(p, 1, Len(p) - 1)) \o <<"/">>) \o p[Len(p)]

LeafPaths == DOMAIN expected \cup DOMAIN actual
PairedLeaves == DOMAIN expected \cap DOMAIN actual
LeafKeys == {join_name(p) : p \in LeafPaths}
Parent(p) == SubSeq(p, 1, Len(p) - 1)
Ancestors(p) == {SubSeq(p, 1, n) : n \in 1..(Len(p) - 1)}
IsDir(tree, d) == d = <<>> \/ \E q \in DOMAIN tree : IsPrefix(d, q) /\ Len(q) > Len(d)
Directories == UNION {Ancestors(p) : p \in LeafPaths}

Returned == pc = "returned"
ReturnedOk == pc = "returned" /\ result = OkResult
RecordEvents == {i \in 1..Len(events) : events[i].ev \in Statuses}
RecordsOf(k) == {i \in RecordEvents : events[i].key = k}
HasStatus(p, status) ==
    /\ join_name(p) \in DOMAIN entries
    /\ entries[join_name(p)].status = status
    /\ \A i \in RecordsOf(join_name(p)) : events[i].ev = status
PairedStatus(p) == IF equal(expected[p], actual[p]) THEN "Unchanged" ELSE "Modified"

\* C1: when calc_diff returns Ok the sink holds exactly one entry per leaf
\* path of expected or actual (a path on both sides once), keyed by the
\* '/'-joined path, and no other entry; the duplicate-key assertion of the
\* sink never fires, under any interleaving.
C1_OneEntryPerLeafPath ==
    /\ ~panicked
    /\ ReturnedOk =>
        /\ DOMAIN entries = LeafKeys
        /\ Cardinality(DOMAIN entries) = Cardinality(LeafPaths)
        /\ Cardinality(RecordEvents) = Cardinality(LeafPaths)
        /\ \A k \in LeafKeys : Cardinality(RecordsOf(k)) = 1

C1_Witness ==
    /\ ReturnedOk
    /\ PairedLeaves # {}
    /\ \E p \in LeafPaths \ PairedLeaves : Len(p) > 1

\* C2: in directories walked together, a leaf on both sides is reported once,
\* Unchanged when equal() holds and Modified when not; a leaf only in
\* expected is Deleted, a leaf only in actual is Added; a directory has no
\* entry of its own.
C2_PairedDirectoryStatuses ==
    ReturnedOk =>
        /\ \A p \in LeafPaths :
            (IsDir(expected, Parent(p)) /\ IsDir(actual, Parent(p))) =>
                /\ Cardinality(RecordsOf(join_name(p))) = 1
                /\ HasStatus(p, IF p \in PairedLeaves THEN PairedStatus(p)
                                ELSE IF p \in DOMAIN expected THEN "Deleted" ELSE "Added")
        /\ \A d \in Directories \ LeafPaths : join_name(d) \notin DOMAIN entries

C2_Witness ==
    /\ ReturnedOk
    /\ \E p \in PairedLeaves, q \in DOMAIN actual \ DOMAIN expected :
        /\ Len(p) = 2 /\ Len(q) = 2 /\ Parent(p) = Parent(q)
        /\ HasStatus(p, "Modified")
        /\ HasStatus(q, "Added")

\* C3: every leaf beneath a directory that exists only in actual, at any
\* depth, is reported Added under its full path, none Deleted.
C3_AddedDirectoryLeavesAdded ==
    ReturnedOk =>
        \A p \in DOMAIN actual :
            (\E d \in Ancestors(p) : ~IsDir(expected, d)) => HasStatus(p, "Added")

\* C4: every leaf beneath a directory that exists only in expected, at any
\* depth, is reported Deleted under its full path; leaves paired elsewhere
\* keep their Unchanged / Modified report.
C4_DeletedDirectoryLeavesDeleted ==
    ReturnedOk =>
        /\ \A p \in DOMAIN expected :
            (\E d \in Ancestors(p) : ~IsDir(actual, d)) =>
                /\ HasStatus(p, "Deleted")
                /\ Cardinality(RecordsOf(join_name(p))) = 1
        /\ \A p \in PairedLeaves : HasStatus(p, PairedStatus(p))

C4_Witness ==
    /\ ReturnedOk
    /\ PairedLeaves # {}
    /\ \E p \in DOMAIN expected :
        /\ Len(p) = 3
        /\ ~IsDir(actual, <<p[1]>>)
        /\ HasStatus(p, "Deleted")

SwapStatus(status) ==
    IF status = "Added" THEN "Deleted" ELSE IF status = "Deleted" THEN "Added" ELSE status

Swapped(S) == {[status |-> SwapStatus(r.status), key |-> r.key] : r \in S}

\* C5: calc_diff(A, B) and calc_diff(B, A) report the same keys, Added and
\* Deleted exchanged, Modified and Unchanged kept.
C5_SwapSymmetry ==
    (round = 2 /\ plan = "swap" /\ ReturnedOk) => reported = Swapped(first)

\* C6: the set of (status, key) events does not depend on the order in which
\* children() yields the children of either side: a second call on the same
\* trees, with every order chosen afresh, reports the same set.
C6_ChildOrderIndependent ==
    (round = 2 /\ plan = "same" /\ Returned /\ ~failed /\ events[1].ok) =>
        /\ ~panicked
        /\ reported = first

C6_Witness ==
    /\ round = 2 /\ plan = "same" /\ ReturnedOk
    /\ \E p \in DOMAIN expected, q \in DOMAIN expected : Len(p) = 1 /\ Len(q) = 2
    /\ \E p \in DOMAIN actual, q \in DOMAIN actual : Len(p) = 1 /\ Len(q) = 2
    /\ Cardinality(first) = 2

AllUnsupported(log) == \A j \in 1..Len(log) : log[j].answer = "Unsupported"

\* C7: a leaf task consults the differs in chain order; the first answer that
\* is not Unsupported ends the dispatch: nothing is consulted after it,
\* nothing was recorded before it, and the entry is recorded by that one
\* differ (by none when that answer is an error).
C7_FirstAnswerEndsDispatch ==
    \A i \in 1..Len(tasks) :
        LET t == tasks[i] IN
        /\ Len(t.log) <= Len(diff)
        /\ \A j \in 1..Len(t.log) : t.log[j].differ = diff[j]
        /\ \A j \in 1..(Len(t.log) - 1) : t.log[j].answer = "Unsupported"
        /\ t.st = "run" =>
            /\ AllUnsupported(t.log)
            /\ t.idx = Len(t.log) + 1
            /\ RecordsOf(t.name) = {}
        /\ t.st = "ok" =>
            /\ t.log # <<>>
            /\ t.log[Len(t.log)].answer = "Ok"
            /\ Cardinality(RecordsOf(t.name)) = 1
            /\ t.name \in DOMAIN entries
            /\ entries[t.name].compares = t.log[Len(t.log)].differ
        /\ t.st = "err" =>
            /\ RecordsOf(t.name) = {}
            /\ t.name \notin DOMAIN entries

C7_Witness ==
    \E i \in 1..Len(tasks) :
        /\ tasks[i].st = "ok"
        /\ Len(tasks[i].log) = 2
        /\ tasks[i].log[1].answer = "Unsupported"
        /\ entries[tasks[i].name].compares = diff[2]

\* C8: a leaf task ends with NoDiffReportMatched exactly when every differ of
\* the chain answered Unsupported, and then the leaf has no entry; a chain
\* that ends in the binary differ never ends a run with NoDiffReportMatched.
C8_NoDiffReportMatched ==
    /\ \A i \in 1..Len(tasks) :
        LET t == tasks[i] IN
        t.st # "run" =>
            /\ (t.ret = "NoDiffReportMatched") <=>
                    (Len(t.log) = Len(diff) /\ AllUnsupported(t.log))
            /\ t.ret = "NoDiffReportMatched" =>
                    (t.name \notin DOMAIN entries /\ RecordsOf(t.name) = {})
    /\ diff[Len(diff)] = "binary" =>
        /\ \A i \in 1..Len(tasks) : tasks[i].ret # "NoDiffReportMatched"
        /\ errors.kind # "NoDiffReportMatched"
        /\ result.kind # "NoDiffReportMatched"

C8_Witness ==
    /\ Returned
    /\ result.kind = "NoDiffReportMatched"
    /\ \E i \in 1..Len(tasks) :
        /\ tasks[i].ret = "NoDiffReportMatched"
        /\ Len(tasks[i].log) = 2

\* C9: the reporter sees start() once, before any record call; the record
\* calls of the leaf tasks in any order; finish() once, after every task has
\* ended; no record call after finish().
C9_ReporterProtocol ==
    /\ \A i \in 1..Len(events) : (events[i].ev = "Start") <=> (i = 1)
    /\ \A i \in 1..Len(events) :
        events[i].ev = "Finish" =>
            /\ i = Len(events)
            /\ \A j \in 1..Len(tasks) : tasks[j].st # "run"
    /\ ReturnedOk =>
        /\ events[Len(events)].ev = "Finish"
        /\ Cardinality(RecordEvents) = Len(tasks)
        /\ Len(events) = Len(tasks) + 2

C9_Witness ==
    /\ ReturnedOk
    /\ Cardinality(RecordEvents) = 2
    /\ events[Len(events)].ev = "Finish"

\* C10: if a traversal step or a leaf task fails, calc_diff returns an error
\* and finish() is never called; if nothing fails, finish() is called and
\* its result is what calc_diff returns.
C10_FailureSkipsFinish ==
    Returned =>
        /\ failed =>
            /\ result.kind \in {"TraverseError", "DiffError", "NoDiffReportMatched"}
            /\ \A i \in 1..Len(events) : events[i].ev # "Finish"
        /\ (~failed /\ events[1].ok) =>
            /\ events[Len(events)].ev = "Finish"
            /\ result = IF events[Len(events)].ok THEN OkResult
                        ELSE CalcDiffError("ReporterError", <<>>)

C10_Witness ==
    /\ Returned
    /\ failed
    /\ DOMAIN entries # {}
    /\ result.kind = "DiffError"


\* C11: the JSON document written at finish() does not depend on the order in
\* which the record_* calls completed nor on the order in which the map is
\* iterated: its entries are in strictly ascending key order, they are
\* exactly the recorded entries, the four counts are the numbers of leaves
\* recorded with each status, and a second run on the same trees writes the
\* same keys, statuses and counts as the first.
C11_JsonDocumentDeterministic ==
    output.written =>
        /\ \A i \in 1..(Len(output.entries) - 1) :
            str_cmp(output.entries[i].key, output.entries[i + 1].key) = "Less"
        /\ Len(output.entries) = Cardinality(DOMAIN entries)
        /\ {output.entries[i] : i \in 1..Len(output.entries)} =
            {[key |-> k, status |-> entries[k].status, compares |-> entries[k].compares] :
                k \in DOMAIN entries}
        /\ \A st \in Statuses :
            output.counts[st] =
                Cardinality({i \in 1..Len(tasks) :
                                tasks[i].st = "ok" /\ report_status(tasks[i]) = st})
        /\ (round = 2 /\ plan = "same") =>
            /\ {[status |-> output.entries[i].status, key |-> output.entries[i].key] :
                    i \in 1..Len(output.entries)} = first
            /\ \A st \in Statuses :
                output.counts[st] = Cardinality({e \in first : e.status = st})

C11_Witness ==
    /\ round = 2
    /\ plan = "same"
    /\ output.written
    /\ Len(output.entries) = 2
    /\ Len(events) = 4
    /\ str_cmp(events[2].key, events[3].key) = "Greater"

\* ------------------------------------------------------- JSON differ claims
\* The pair of the call went through the MIME gate and both files parsed.
JsonParsedBoth ==
    /\ call.differ = "json"
    /\ call.kind = "diff"
    /\ is_json_mime(call.expected.kind)
    /\ is_json_mime(call.actual.kind)
    /\ from_slice(call.expected.content).ok
    /\ from_slice(call.actual.content).ok

expected_json == from_slice(call.expected.content).value
actual_json == from_slice(call.actual.content).value

C13_KeyOrderOnly ==
    (/\ JsonParsedBoth
     /\ call.st \in {"done", "panicked", "failed", "next"}
     /\ expected_json # actual_json
     /\ sort_all_objects(expected_json) = sort_all_objects(actual_json))
    => call.recorded = (IF call.ignore_object_key_order THEN "Unchanged" ELSE "Modified")

side_text(lines, side, tags) ==
    Flatten([n \in 1..Len(lines) |->
                IF lines[n].tag \in tags
                THEN (IF side = "expected" THEN lines[n].expected ELSE lines[n].actual)
                ELSE <<>>])

\* C15: the lines of json_diff render both values: the expected texts of the
\* Unchanged and Deleted lines, joined, are valid JSON equal to the expected
\* value, and the actual texts of the Unchanged and Added lines are valid
\* JSON equal to the actual value, the commas being right on each side.
C15_FaithfulRendering ==
    (JsonParsedBoth /\ call.answer \in {"Ok", "Panic"})
    => LET expected_text == side_text(call.out.lines, "expected", {"Unchanged", "Deleted"})
           actual_text == side_text(call.out.lines, "actual", {"Unchanged", "Added"})
       IN  /\ ~call.out.panic
           /\ from_slice(expected_text).ok
           /\ Value_eq(from_slice(expected_text).value, expected_json)
           /\ from_slice(actual_text).ok
           /\ Value_eq(from_slice(actual_text).value, actual_json)

\* ------------------------------------------------------- text differ claims
\* Valid UTF-8 in which every character is '\n', '\r', '\t' or not a control
\* character.
clean_text(content) ==
    /\ from_utf8(content).ok
    /\ \A i \in 1..Len(content) : ~is_control(content[i]) \/ is_whitespace_control(content[i])

\* C16: the text differ accepts a pair exactly when both sides have a text
\* MIME, or neither side has a known-binary MIME and both contents are valid
\* UTF-8 holding only '\n', '\r', '\t' and non-control characters; in every
\* other case it answers Unsupported.
C16_TextGate ==
    (call.differ = "text" /\ call.kind = "diff" /\ call.st # "start")
    => /\ call.answer \in {"Ok", "Unsupported"}
       /\ call.answer = "Ok" <=>
            \/ is_text_mime(call.expected.kind) /\ is_text_mime(call.actual.kind)
            \/ /\ ~is_binary_mime(call.expected.kind)
               /\ ~is_binary_mime(call.actual.kind)
               /\ clean_text(call.expected.content)
               /\ clean_text(call.actual.content)

\* ------------------------------------------------------ image differ claims
expected_image == call.expected.content.image
actual_image == call.actual.content.image

\* The pixels of the overlap that pixel_diff tells apart.
OverlapDiffs ==
    {c \in Coords(Min({expected_image.width, actual_image.width}),
                  Min({expected_image.height, actual_image.height})) :
        abs_diff(expected_image.data[c], actual_image.data[c]) > call.max_distance}

\* C17: compare reports total_pixels = max(width) x max(height), diff_pixels =
\* the differing pixels of the min(width) x min(height) overlap plus every
\* pixel outside the overlap, and a diff image of max(width) x max(height);
\* 2x2 against 3x3 with an identical overlap gives 5 and a 3x3 diff image.
C17_CompareCounts ==
    (call.differ = "image" /\ call.kind = "diff" /\ call.answer = "Ok")
    => LET total == Max({expected_image.width, actual_image.width})
                    * Max({expected_image.height, actual_image.height})
           overlap == Min({expected_image.width, actual_image.width})
                      * Min({expected_image.height, actual_image.height})
       IN  /\ call.stat.total_pixels = total
           /\ call.stat.diff_pixels = Cardinality(OverlapDiffs) + (total - overlap)
           /\ call.stat.diff_image.width = Max({expected_image.width, actual_image.width})
           /\ call.stat.diff_image.height = Max({expected_image.height, actual_image.height})
           /\ DOMAIN call.stat.diff_image.data
                = Coords(call.stat.diff_image.width, call.stat.diff_image.height)
           /\ (/\ expected_image.width = 2 /\ expected_image.height = 2
               /\ actual_image.width = 3 /\ actual_image.height = 3
               /\ OverlapDiffs = {})
              => call.stat.diff_pixels = 5 /\ call.stat.diff_image.width = 3
                 /\ call.stat.diff_image.height = 3

C17_Witness ==
    /\ call.differ = "image"
    /\ call.kind = "diff"
    /\ call.answer = "Ok"
    /\ expected_image.width = 2 /\ expected_image.height = 2
    /\ actual_image.width = 3 /\ actual_image.height = 3
    /\ OverlapDiffs = {}
    /\ call.stat.diff_pixels = 5
    /\ call.stat.total_pixels = 9

\* C18: a file with a supported image MIME that does not decode makes the
\* image differ answer Unsupported, not an error, for a pair and for a
\* one-sided leaf on every sink, and the loop goes on to the binary differ.
C18_DecodeFailureUnsupported ==
    (/\ call.differ = "image"
     /\ call.st # "start"
     /\ image_format(call.expected.kind).some
     /\ image_format(call.actual.kind).some
     /\ \/ ~load_from_memory_with_format(call.expected.content,
                                         image_format(call.expected.kind).format).ok
        \/ ~load_from_memory_with_format(call.actual.content,
                                         image_format(call.actual.kind).format).ok)
    => /\ call.answer = "Unsupported"
       /\ call.recorded = "none"
       /\ call.st \in {"answered", "next"}
       /\ call.st = "next" => diff[call.idx] = "binary"

\* ------------------------------------------------------ audio differ claims
\* C19: two decodable audio files that differ in sample rate or channel count
\* give a diff of status Incomparable: the answer is Ok and not an error,
\* equal() is false so the leaf is recorded modified, and the diff and its
\* report carry no alignment, loudness or spectrogram-difference numbers.
C19_MismatchIncomparable ==
    (/\ call.differ = "audio"
     /\ call.st # "start"
     /\ is_audio_kind(call.expected.kind)
     /\ is_audio_kind(call.actual.kind)
     /\ call.expected.content.enc = "pcm"
     /\ call.actual.content.enc = "pcm"
     /\ \/ call.expected.content.sample_rate # call.actual.content.sample_rate
        \/ call.expected.content.channels # call.actual.content.channels)
    => /\ call.answer = "Ok"
       /\ call.status = "Incomparable"
       /\ ~call.equal
       /\ ~call.detail.some
       /\ call.st \in {"calculated", "answered", "done"}
       /\ call.st \in {"answered", "done"} =>
            /\ call.recorded = "Modified"
            /\ call.report.status = "Incomparable"
            /\ ~call.report.numbers

C19_Witness ==
    /\ call.differ = "audio"
    /\ call.st = "done"
    /\ call.expected.content.enc = "pcm"
    /\ call.actual.content.enc = "pcm"
    /\ call.expected.content.sample_rate = call.actual.content.sample_rate
    /\ call.expected.content.channels = 1
    /\ call.actual.content.channels = 2
    /\ call.expected.kind = AUDIO_WAV
    /\ call.actual.kind = VIDEO_MP4
    /\ call.status = "Incomparable"
    /\ call.recorded = "Modified"

\* ------------------------------------------------------- traversal errors
\* C20: when reading a directory's children fails, calc_diff returns that
\* TraverseError, whatever the leaf tasks scheduled before did and when:
\* the error the root call hands back is the one stored for the caller, and
\* the stored error is the one calc_diff returns.
C20_TraversalErrorReturned ==
    [][/\ (thrown.kind = "TraverseError" /\ thrown' = NoError) => errors' = thrown
       /\ (pc' = "returned" /\ errors.kind = "TraverseError" /\ ~panicked) => result' = errors]_vars

\* ------------------------------------------------------------ error slot
\* C21: the shared error slot is first-writer-wins under every interleaving:
\* a stored error is never overwritten by a later failure of a task or of
\* the traversal, and it leaves the slot only when calc_diff returns it.
C21_FirstWriterWins ==
    [][errors # NoError =>
        \/ errors' = errors
        \/ /\ pc = "join"
           /\ pc' = "returned"
           /\ result' = errors
           /\ errors' = NoError]_vars

C21_Witness ==
    /\ Returned
    /\ \E i, j \in 1..Len(tasks) :
        /\ i < j
        /\ tasks[i].st = "err"
        /\ tasks[j].st = "err"
        /\ tasks[i].ret = "NoDiffReportMatched"
        /\ tasks[j].ret = "DiffError"
        /\ result = CalcDiffError("DiffError", tasks[j].name)

\* C22: calc_diff never returns while a task it scheduled is still running:
\* every task has completed before the error slot is read and before
\* finish() is called, also when the traversal or another task has failed.
C22_JoinIsBarrier ==
    /\ Returned => \A i \in 1..Len(tasks) : tasks[i].st \in {"ok", "err"}
    /\ (\E n \in 1..Len(events) : events[n].ev = "Finish") =>
            \A i \in 1..Len(tasks) : tasks[i].st = "ok"
    /\ (\E i \in 1..Len(tasks) : tasks[i].st = "run") => result = Pending /\ ~output.written

C22_Witness ==
    /\ Returned
    /\ result.kind = "TraverseError"
    /\ Len(tasks) = 2
    /\ tasks[1].st = "err"
    /\ tasks[2].st = "ok"

\* ------------------------------------------------------- path accumulator
\* The directory a frame of calc_diff_inner walks.
FramePath(f) == IF f.enode # NoNode THEN f.enode.path ELSE f.anode.path

\* C23: the path accumulator is restored on every exit from a directory
\* frame or leaf dispatch, normal or with an error: whenever a frame is
\* running or returning, the accumulator is the '/'-joined path of that
\* frame's directory, and once the root call has returned it is empty.
C23_AccumulatorRestored ==
    /\ (pc \in {"walk", "unwind"} /\ stack # <<>>) => name = join_name(FramePath(Top))
    /\ stack = <<>> => name = <<>>

C23_Witness ==
    /\ pc = "unwind"
    /\ Len(stack) = 1
    /\ Len(thrown.key) = 3
    /\ Len(tasks) = 1
    /\ name = <<>>

\* ------------------------------------------------------- cross-kind names
\* The names that are a file on one side and a directory on the other.
CrossKind ==
    {c \in LeafPaths \cup Directories :
        \/ c \in DOMAIN expected /\ IsDir(actual, c)
        \/ c \in DOMAIN actual /\ IsDir(expected, c)}

\* The leaves at or beneath a cross-kind name.
CrossKindLeaves == {p \in LeafPaths : \E c \in CrossKind : IsPrefix(c, p)}

\* C24: a name that is a directory on one side and a file on the other is
\* never paired: the cross-kind branch of the merge is never reached, no
\* task compares the file or a leaf of the directory with anything, and on
\* an Ok return each of them has a single-sided Added or Deleted entry.
C24_CrossKindNeverPaired ==
    /\ ~panicked
    /\ \A i \in 1..Len(tasks) :
        (\E p \in CrossKindLeaves : tasks[i].name = join_name(p)) =>
            tasks[i].kind \in {"added", "deleted"}
    /\ ReturnedOk =>
        \A p \in CrossKindLeaves :
            /\ Cardinality(RecordsOf(join_name(p))) = 1
            /\ HasStatus(p, "Added") \/ HasStatus(p, "Deleted")

C24_Witness ==
    /\ ReturnedOk
    /\ \E c \in DOMAIN actual, p \in DOMAIN expected :
        /\ Len(c) = 1 /\ Len(p) = 2 /\ IsPrefix(c, p)
        /\ HasStatus(c, "Added")
        /\ HasStatus(p, "Deleted")

\* ------------------------------------------------- the array replace step
InReplace == call.differ = "replace"

\* The pairs (i, j) the two maps hold.
Pairings(maps) ==
    {<<i, maps.expected_to_actual[i]>> :
        i \in {i \in DOMAIN maps.expected_to_actual : maps.expected_to_actual[i] # 0}}

\* C25: in the array replace step the accepted pairings always form an
\* order-preserving partial matching: the two maps are each other's inverse,
\* so no item is paired twice, and of two pairings the one with the smaller
\* expected index has the smaller actual index; the emission loop meets no
\* assertion and no unreachable branch.
C25_OrderPreservingMatching ==
    InReplace =>
        /\ \A i \in DOMAIN call.maps.expected_to_actual :
            call.maps.expected_to_actual[i] # 0 =>
                call.maps.actual_to_expected[call.maps.expected_to_actual[i]] = i
        /\ \A j \in DOMAIN call.maps.actual_to_expected :
            call.maps.actual_to_expected[j] # 0 =>
                call.maps.expected_to_actual[call.maps.actual_to_expected[j]] = j
        /\ \A p, r \in Pairings(call.maps) : p[1] < r[1] => p[2] < r[2]
        /\ call.st = "done" => Panic \notin call.out

C25_Witness ==
    /\ InReplace
    /\ call.st = "done"
    /\ Cardinality(Pairings(call.maps)) = 2
    /\ \E k \in 1..Len(call.turns) : call.turns[k].verdict = "dropped"

\* A candidate crosses a pairing when the two disagree on the order of the
\* expected and of the actual items.
Crosses(c, maps) ==
    \E p \in Pairings(maps) :
        \/ p[1] < c.expected_index /\ p[2] > c.actual_index
        \/ p[1] > c.expected_index /\ p[2] < c.actual_index

Reuses(c, maps) ==
    \/ maps.expected_to_actual[c.expected_index] # 0
    \/ maps.actual_to_expected[c.actual_index] # 0

\* C26: in the array replace step the candidates are taken in descending
\* score order, and a candidate is accepted whenever both of its items are
\* still unpaired and it crosses no accepted pairing; only a candidate that
\* would cross or reuse an item is rejected.
C26_AcceptedUnlessCrossing ==
    InReplace =>
        /\ \A k \in 1..(Len(call.turns) - 1) : heap_less(call.turns[k + 1].c, call.turns[k].c)
        /\ \A k \in 1..Len(call.turns) :
            call.turns[k].verdict = "paired"
                <=> (~Reuses(call.turns[k].c, call.turns[k].before)
                     /\ ~Crosses(call.turns[k].c, call.turns[k].before))

\* ---------------------------------------------------- the alignment search
\* C27: for all channel lengths and every shift of the search, also a shift
\* larger than a channel's length, the overlap is a pair of ranges of equal
\* length within the bounds of the expected and of the actual channel, and
\* the search visits every candidate without an out-of-bounds failure.
C27_OverlapWithinBounds ==
    (call.differ = "align" /\ call.st \in {"search", "panicked"}) =>
        /\ call.st # "panicked"
        /\ call.overlap[1].end - call.overlap[1].start
            = call.overlap[2].end - call.overlap[2].start
        /\ call.overlap[1].start <= call.overlap[1].end
        /\ call.overlap[1].end <= call.expected
        /\ call.overlap[2].start <= call.overlap[2].end
        /\ call.overlap[2].end <= call.actual

\* ------------------------------------------------------------ the counters
RecordCalls(status) == {i \in RecordEvents : events[i].ev = status}

\* C28: after the scope has joined, each of the four counters equals the
\* number of record calls made with its status, in whatever order the tasks
\* made them; the four counts sum to the number of entries, and finish()
\* writes these counts.
C28_CountersExact ==
    (pc \in {"join", "returned"} /\ scope_joined) =>
        /\ \A status \in Statuses : counts[status] = Cardinality(RecordCalls(status))
        /\ counts["Unchanged"] + counts["Modified"] + counts["Added"] + counts["Deleted"]
            = Cardinality(DOMAIN entries)
        /\ output.written => output.counts = counts

C28_Witness ==
    /\ ReturnedOk
    /\ output.written
    /\ Len(tasks) = 2
    /\ counts["Deleted"] = 2
    /\ \E m, n \in RecordEvents :
        m < n /\ events[m].key = tasks[2].name /\ events[n].key = tasks[1].name

\* ------------------------------------------------------ no false unchanged
\* The two values json_diff is handed: the parsed values, their objects
\* sorted when the key order is ignored.
expected_diffed ==
    IF call.ignore_object_key_order THEN sort_all_objects(expected_json) ELSE expected_json

actual_diffed ==
    IF call.ignore_object_key_order THEN sort_all_objects(actual_json) ELSE actual_json

\* C29: the JSON differ never reports a false unchanged: equal() is true, and
\* the pair recorded unchanged, only if the two parsed values (after the
\* optional key sort) are equal; two values that differ give at least one
\* Added or Deleted line.
C29_NoFalseUnchanged ==
    (JsonParsedBoth /\ call.st # "start" /\ call.answer = "Ok") =>
        /\ call.equal => Value_eq(expected_diffed, actual_diffed)
        /\ call.recorded = "Unchanged" => Value_eq(expected_diffed, actual_diffed)
        /\ ~Value_eq(expected_diffed, actual_diffed) =>
            \E n \in 1..Len(call.out.lines) : call.out.lines[n].tag \in {"Added", "Deleted"}

C29_Witness ==
    /\ JsonParsedBoth
    /\ call.st = "done"
    /\ expected_json.t = "obj" /\ actual_json.t = "obj"
    /\ Len(expected_json.v) = 1 /\ Len(actual_json.v) = 1
    /\ expected_json.v[1].k = actual_json.v[1].k
    /\ ~Value_eq(expected_json.v[1].v, actual_json.v[1].v)
    /\ ~call.equal
    /\ call.recorded = "Modified"
    /\ \E n \in 1..Len(call.out.lines) : call.out.lines[n].tag = "Deleted"

\* ------------------------------------------- single-sided text, HTML sink
\* C30: with the HTML sink the text differ's report_added / report_deleted
\* never panic: a file that passes the is_text_file gate, also one with a
\* text MIME whose bytes are not valid UTF-8, is recorded as an entry, and
\* every other file is declined with Unsupported.
C30_HtmlSingleNeverPanics ==
    (/\ call.differ = "text"
     /\ call.kind \in {"added", "deleted"}
     /\ call.reporter = "html"
     /\ call.st # "start")
    => /\ call.answer \in {"Ok", "Unsupported"}
       /\ call.st # "panicked"
       /\ is_text_file(call.expected.kind, call.expected.content) =>
            /\ call.answer = "Ok"
            /\ call.recorded = (IF call.kind = "added" THEN "Added" ELSE "Deleted")

====
